---- MODULE Spec2Model ----
(***************************************************************************)
(* share-smote backend: the asset registry (assets/registry.py), a JSON   *)
(* index guarded by a file lock and rewritten atomically; the SMOTE       *)
(* planner, run_smote, vec and mat (augment/service.py); the scoring of   *)
(* synthetics (metrics/service.py); the params store (params/service.py)  *)
(* and the ingestion of archives (upload/service.py).                     *)
(*                                                                         *)
(* The registry is modelled as one process holding one AssetRegistry and  *)
(* a few worker threads calling its methods.  Every method is cut into    *)
(* the steps between which another thread, or a crash of the process, can *)
(* be observed: the work done before the lock is taken, the acquisition   *)
(* of the lock, the read-modify part done under the lock, and the steps   *)
(* of atomic_write (temporary file created, partly written, fully written *)
(* and synced, os.replace).                                                *)
(***************************************************************************)
EXTENDS Integers, Sequences, FiniteSets, TLC

(* ----------------------------- bounds ---------------------------------- *)
NumWorkers == 2     \* threads calling the registry concurrently
MaxOps     == 3     \* registry calls started in one behaviour

Workers == 1..NumWorkers

(* --------------------------- file names -------------------------------- *)
\* A file name is a sequence of characters over a three-letter alphabet.
Name_ap  == <<"a", ".", "p">>                \* "a.p"
Name_up  == <<".", ".", "/", "a">>           \* "../a"
Name_sub == <<"a", "/", "a">>                \* "a/a"
Name_dd  == <<".", ".">>                     \* ".."
Name_adp == <<"a", ".", ".", "p">>           \* "a..p"
FileNames == {Name_ap, Name_up, Name_sub, Name_dd, Name_adp}
Labels    == {"cat"}

\* The components of a '/'-separated string, empty ones included.
RECURSIVE SplitFrom(_, _, _)
SplitFrom(s, i, cur) ==
    IF i > Len(s) THEN <<cur>>
    ELSE IF s[i] = "/" THEN <<cur>> \o SplitFrom(s, i + 1, <<>>)
    ELSE SplitFrom(s, i + 1, Append(cur, s[i]))

Split(s) == SplitFrom(s, 1, <<>>)

\* pathlib drops empty and "." components when it parses a path.
PathParts(s) == SelectSeq(Split(s), LAMBDA c : c # <<>> /\ c # <<".">>)

\* Path(s).name: the last component, "" when there is none.
PathName(s) == IF PathParts(s) = <<>> THEN <<>> ELSE PathParts(s)[Len(PathParts(s))]

\* ".." in s  (substring test)
HasDotDot(s) == \E i \in 1..(Len(s) - 1) : s[i] = "." /\ s[i + 1] = "."

\* "/" in s
HasSlash(s) == \E i \in 1..Len(s) : s[i] = "/"

\* registry.py:226-227, the test that guards the ValueError; TRUE = rejected.
InvalidFilename_NameOnly(original) == HasDotDot(PathName(original))

InvalidFilename(original) ==
    LET safename == PathName(original)
    IN  safename # original \/ HasDotDot(safename) \/ HasSlash(safename)

\* mimetypes.guess_type(name)[0] or "application/octet-stream"
GuessType(name) ==
    IF Len(name) >= 2 /\ name[Len(name) - 1] = "." /\ name[Len(name)] = "p"
    THEN "image/png" ELSE "application/octet-stream"

(* ---------------------------- the index -------------------------------- *)
\* The "assets" mapping of the document is an insertion-ordered dict: a
\* sequence of records with distinct ids.
EmptyAssets == <<>>

IdsOf(assets) == {assets[i].id : i \in 1..Len(assets)}

HasId(assets, id) == id \in IdsOf(assets)

Lookup(assets, id) == assets[CHOOSE i \in 1..Len(assets) : assets[i].id = id]

\* assets[asset_id] = record: replaces in place, or appends a new key
Put(assets, rec) ==
    IF HasId(assets, rec.id)
    THEN [i \in 1..Len(assets) |-> IF assets[i].id = rec.id THEN rec ELSE assets[i]]
    ELSE Append(assets, rec)

\* popitem(): the entry added last, whatever its key
Pop_LastItem(assets, id) ==
    IF assets = <<>> THEN assets ELSE SubSeq(assets, 1, Len(assets) - 1)

\* assets.pop(asset_id, None)
Pop(assets, id) == SelectSeq(assets, LAMBDA r : r.id # id)

\* A file holding a JSON document: absent, partly written, or complete.
AbsentFile      == [state |-> "absent",   assets |-> EmptyAssets]
PartialFile(a)  == [state |-> "partial",  assets |-> a]
CompleteFile(a) == [state |-> "complete", assets |-> a]

VARIABLES
    index,      \* the index file on disk
    tmp,        \* per worker: the temporary file of its atomic_write
    lockHolder, \* the set of workers holding the FileLock, empty when free
    pc,         \* per worker: where it is in its call
    op,         \* per worker: the call it is in, with its arguments
    data,       \* per worker: the assets mapping of the document it read
    dirs,       \* ids whose directory ASSETSPATH/<id> exists
    files,      \* ids whose backing file ASSETSPATH/<id>/<name> exists
    nextId,     \* uuid4 values drawn so far
    constructed,\* AssetRegistry.__init__ has returned
    nOps,       \* calls started
    epoch,      \* os.replace calls on the index so far
    last,       \* the call that ended last: what it returned or raised
    added,      \* the records add_file has returned
    deleted,    \* ids whose entry a delete_asset removed from the index
    rpAsset,    \* resolve_path: the relpath stored in the asset it is given
    rpOut,      \* resolve_path: what it returned or raised
    y,          \* _compute_strategy: the list of labels
    targetratio,\* _compute_strategy: the target ratio, or None
    strategy,   \* _compute_strategy: the mapping it returned
    originals,  \* run_smote: the samples it is given
    params,     \* run_smote: the ParameterSet load_params returned
    spc,        \* run_smote / post_smote: where the request is
    srun,       \* which execution of run_smote on these samples this is
    sy,         \* run_smote: y, the labels of the samples that loaded
    splan,      \* run_smote: strategy
    skeff,      \* run_smote: keff
    sres,       \* run_smote: the rows SMOTE appended, X_res[len(X):] with y_res[len(y):]
    si,         \* run_smote: rows of sres the save loop has been through
    sfails,     \* run_smote: rows whose decode or save has raised so far
    synthetics, \* run_smote: synthetics
    synthDisk,  \* files under ASSETSPATH/synthetic
    sexit,      \* run_smote: the return statement it left by
    out1,       \* what the first execution returned
    resp,       \* post_smote: the response
    qdata,      \* compute_quality_metrics: the SyntheticImages it is given
    qpc,        \* scoring: where it is
    qreport,    \* compute_quality_metrics: the metrics of the report it returned
    qavg,       \* post_smote: average_quality
    plock,      \* ParamsStore: the threads holding its FileLock, empty when free
    ppc,        \* ParamsStore: per thread, where it is in its call
    pcall,      \* ParamsStore: per thread, the call it is in
    pdoc,       \* ParamsStore: the params document on disk
    ptmp,       \* ParamsStore: per thread, its temporary file
    pout,       \* ParamsStore: per thread, what its last call returned
    pOps,       \* ParamsStore: calls started
    pwait,      \* ParamsStore: per thread, polls spent in FileLock.acquire
    zmembers,   \* ingest_zip: the members of the archive
    zi,         \* ingest_zip: members it has been through
    zpc,        \* ingest_zip: where it is
    ztmp,       \* ingest_zip: the files in DATAPATH/tmp, by member
    zcreated,   \* ingest_zip: created, by member
    zout,       \* ingest_zip: what it returned or raised
    cimg,       \* vec: the image it is given
    cshape,     \* mat: the shape it is given
    cvec,       \* vec / mat: the flattened vector
    cout,       \* mat: the image it returned
    cpc,        \* vec / mat: where the round trip is
    mcands,     \* scoring one synthetic: the loaded same-label originals
    mpc,        \* scoring one synthetic: where it is
    mout,       \* scoring one synthetic: the metrics appended for it
    dprel,      \* delete_asset: the relpath of the record it found
    dpdisk,     \* delete_asset: the files and directories on the disk
    dppc,       \* delete_asset: where its file removal is
    dpgone,     \* delete_asset: what it has unlinked or removed
    lpc,        \* load_params: where it is
    lsaw,       \* load_params: what settings_path.exists() returned
    lout        \* load_params: the document it built the ParameterSet from

regVars  == <<index, tmp, lockHolder, pc, op, data, dirs, files, nextId, constructed,
              nOps, epoch, last, added, deleted>>
pathVars == <<rpAsset, rpOut>>
planVars == <<y, targetratio, strategy>>
smoteVars == <<originals, params, spc, srun, sy, splan, skeff, sres, si, sfails,
               synthetics, synthDisk, sexit, out1, resp>>
scoreVars  == <<qdata, qpc, qreport, qavg>>
paramVars  == <<plock, ppc, pcall, pdoc, ptmp, pout, pOps, pwait>>
ingestVars == <<zmembers, zi, zpc, ztmp, zcreated, zout>>
codecVars   == <<cimg, cshape, cvec, cout, cpc>>
matchVars   == <<mcands, mpc, mout>>
delPathVars == <<dprel, dpdisk, dppc, dpgone>>
loadVars    == <<lpc, lsaw, lout>>
lateVars == <<codecVars, matchVars, delPathVars, loadVars>>
moreVars == <<scoreVars, paramVars, ingestVars, lateVars>>
restVars == <<smoteVars, moreVars>>
vars     == <<regVars, pathVars, planVars, restVars>>

NoOp  == [kind |-> "none", id |-> 0, filename |-> <<>>, label |-> "none", created |-> 0,
          src |-> "none", unlink |-> "none"]
NoTmp == [state |-> "none", assets |-> EmptyAssets]

\* What a call returned or raised, with the call and the number of index
\* replacements that had happened when it ended.
NoOutcome == [tag |-> "none", val |-> <<>>, call |-> NoOp, epoch |-> 0]
Outcome(t, v, o, e) == [tag |-> t, val |-> v, call |-> o, epoch |-> e]

\* Asset(id=..., filename=safename, relpath=..., mimetype=..., size=..., sha256=...,
\*       created_at=time.time(), label=label), as the dict asdict() makes of it.
\* The clock is read as the logical time of the call; size and hash are those of
\* the source file.
AssetRecord(o) ==
    [id         |-> o.id,
     filename   |-> PathName(o.filename),
     relpath    |-> [root |-> "assets", dir |-> o.id, name |-> PathName(o.filename)],
     mimetype   |-> GuessType(PathName(o.filename)),
     size       |-> "size(source)",
     sha256     |-> "sha256(source)",
     created_at |-> o.created,
     label      |-> o.label]

\* AssetRegistry.read: the default document when the file is absent or does not
\* parse (json.JSONDecodeError), else the parsed document
ReadIndex(ix) == IF ix.state = "complete" THEN ix.assets ELSE EmptyAssets

RegistryInit ==
    /\ index = AbsentFile
    /\ tmp = [w \in Workers |-> NoTmp]
    /\ lockHolder = {}
    /\ pc = [w \in Workers |-> IF w = 1 THEN "ensure" ELSE "idle"]
    /\ op = [w \in Workers |-> NoOp]
    /\ data = [w \in Workers |-> EmptyAssets]
    /\ dirs = {}
    /\ files = {}
    /\ nextId = 0
    /\ constructed = FALSE
    /\ nOps = 0
    /\ epoch = 0
    /\ last = NoOutcome
    /\ added = {}
    /\ deleted = {}

\* The call of worker w ends with outcome (t, v): its frame is gone.
Ends(w, t, v, e) ==
    /\ last' = Outcome(t, v, op[w], e)
    /\ op' = [op EXCEPT ![w] = NoOp]
    /\ data' = [data EXCEPT ![w] = EmptyAssets]
    /\ tmp' = [tmp EXCEPT ![w] = NoTmp]
    /\ pc' = [pc EXCEPT ![w] = "idle"]

(* ------------------------- construction -------------------------------- *)
\* __init__ / ensure_index: the index is created, without the lock, when
\* index_path.exists() is false.  Worker 1 is the thread that constructs.
EnsureIndex(w) ==
    /\ pc[w] = "ensure"
    /\ IF index.state = "absent"
       THEN /\ op' = [op EXCEPT ![w] = [NoOp EXCEPT !.kind = "init"]]
            /\ pc' = [pc EXCEPT ![w] = "aw_create"]
            /\ UNCHANGED constructed
       ELSE /\ constructed' = TRUE
            /\ pc' = [pc EXCEPT ![w] = "idle"]
            /\ UNCHANGED op
    /\ UNCHANGED <<index, tmp, lockHolder, data, dirs, files, nextId, nOps, epoch,
                   last, added, deleted>>
    /\ UNCHANGED <<pathVars, planVars, restVars>>

(* ---------------------------- the lock --------------------------------- *)
\* FileLock(lock_path, timeout=10).acquire(): the lock is polled; a poll that
\* finds it free takes it, a poll that finds it held changes nothing unless the
\* 10 s have run out, and then it raises filelock.Timeout.  Time is not
\* modelled: whenever the lock is held the timeout may have run out.
\* A lock that does not exclude: it is taken whether or not it is held.
Acquire_NoExclusion(w) ==
    /\ pc[w] = "acquire"
    /\ lockHolder' = lockHolder \cup {w}
    /\ pc' = [pc EXCEPT ![w] = "locked"]
    /\ UNCHANGED <<index, tmp, op, data, dirs, files, nextId, constructed, nOps,
                   epoch, last, added, deleted>>
    /\ UNCHANGED <<pathVars, planVars, restVars>>

Acquire(w) ==
    /\ pc[w] = "acquire"
    /\ lockHolder = {}
    /\ lockHolder' = {w}
    /\ pc' = [pc EXCEPT ![w] = "locked"]
    /\ UNCHANGED <<index, tmp, op, data, dirs, files, nextId, constructed, nOps,
                   epoch, last, added, deleted>>
    /\ UNCHANGED <<pathVars, planVars, restVars>>

\* A lock without a timeout: the caller waits until the lock is free.
LockTimeout_Never(w) ==
    /\ FALSE
    /\ UNCHANGED vars

LockTimeout(w) ==
    /\ pc[w] = "acquire"
    /\ lockHolder # {}
    /\ Ends(w, "Timeout", <<>>, epoch)
    /\ UNCHANGED <<index, lockHolder, dirs, files, nextId, constructed, nOps, epoch,
                   added, deleted>>
    /\ UNCHANGED <<pathVars, planVars, restVars>>

\* one turn of the acquisition loop
AcquireStep(w) == Acquire(w) \/ LockTimeout(w)

(* ------------------------------ calls ---------------------------------- *)
CanCall(w) == constructed /\ pc[w] = "idle" /\ nOps < MaxOps

\* add_file, lines 225-249: the id is drawn and the file name checked; a name
\* that passes has its directory made, the source moved into it and the record
\* built (the destination of a checked name lies in the new directory, so the
\* containment test of line 233 passes).  Nothing here touches the index.
CallAddFile(w, fn, label) ==
    /\ CanCall(w)
    /\ nOps' = nOps + 1
    /\ nextId' = nextId + 1
    /\ LET call == [NoOp EXCEPT !.kind = "add", !.id = nextId + 1, !.filename = fn,
                                !.label = label, !.created = nextId + 1,
                                !.src = "present"]
       IN IF InvalidFilename(fn)
          THEN /\ last' = Outcome("ValueError", <<>>, call, epoch)
               /\ UNCHANGED <<op, pc, dirs, files>>
          ELSE /\ op' = [op EXCEPT ![w] = [call EXCEPT !.src = "moved"]]
               /\ dirs' = dirs \cup {nextId + 1}
               /\ files' = files \cup {nextId + 1}
               /\ pc' = [pc EXCEPT ![w] = "acquire"]
               /\ UNCHANGED last
    /\ UNCHANGED <<index, tmp, lockHolder, data, constructed, epoch, added, deleted>>
    /\ UNCHANGED <<pathVars, planVars, restVars>>

\* add_file, lines 250-254, under the lock
AddLocked(w) ==
    /\ pc[w] = "locked" /\ op[w].kind = "add"
    /\ data' = [data EXCEPT ![w] = Put(ReadIndex(index), AssetRecord(op[w]))]
    /\ pc' = [pc EXCEPT ![w] = "aw_create"]
    /\ UNCHANGED <<index, tmp, lockHolder, op, dirs, files, nextId, constructed, nOps,
                   epoch, last, added, deleted>>
    /\ UNCHANGED <<pathVars, planVars, restVars>>

CallWithId(w, kind, id) ==
    /\ CanCall(w)
    /\ nOps' = nOps + 1
    /\ op' = [op EXCEPT ![w] = [NoOp EXCEPT !.kind = kind, !.id = id]]
    /\ pc' = [pc EXCEPT ![w] = "acquire"]
    /\ UNCHANGED <<index, tmp, lockHolder, data, dirs, files, nextId, constructed,
                   epoch, last, added, deleted>>
    /\ UNCHANGED <<pathVars, planVars, restVars>>

CallDeleteAsset(w, id) == CallWithId(w, "delete", id)
CallGetAsset(w, id)    == CallWithId(w, "get", id)
CallListAssets(w)      == CallWithId(w, "list", 0)

(* ------------------------------ reads ---------------------------------- *)
\* get_asset, lines 162-170: Asset(**meta) when the id has a record, else None
GetValue(assets, id) == IF HasId(assets, id) THEN <<Lookup(assets, id)>> ELSE <<>>

\* list_assets, lines 143-151: the records in the order of the document
ListValue(assets) == assets

\* A get_asset that takes the record out of the document it returns it from.
GetLocked_Consuming(w) ==
    /\ pc[w] = "locked" /\ op[w].kind = "get"
    /\ Ends(w, "Asset", GetValue(ReadIndex(index), op[w].id), epoch)
    /\ index' = [index EXCEPT !.assets = Pop(@, op[w].id)]
    /\ lockHolder' = lockHolder \ {w}
    /\ UNCHANGED <<dirs, files, nextId, constructed, nOps, epoch, added, deleted>>
    /\ UNCHANGED <<pathVars, planVars, restVars>>

GetLocked(w) ==
    /\ pc[w] = "locked" /\ op[w].kind = "get"
    /\ Ends(w, "Asset", GetValue(ReadIndex(index), op[w].id), epoch)
    /\ lockHolder' = lockHolder \ {w}
    /\ UNCHANGED <<index, dirs, files, nextId, constructed, nOps, epoch, added, deleted>>
    /\ UNCHANGED <<pathVars, planVars, restVars>>

ListLocked(w) ==
    /\ pc[w] = "locked" /\ op[w].kind = "list"
    /\ Ends(w, "List", ListValue(ReadIndex(index)), epoch)
    /\ lockHolder' = lockHolder \ {w}
    /\ UNCHANGED <<index, dirs, files, nextId, constructed, nOps, epoch, added, deleted>>
    /\ UNCHANGED <<pathVars, planVars, restVars>>

(* ------------------------------ delete --------------------------------- *)
\* A delete_asset without the early return of lines 185-186.
DeleteLocked_NoEarlyReturn(w) ==
    /\ pc[w] = "locked" /\ op[w].kind = "delete"
    /\ data' = [data EXCEPT ![w] = ReadIndex(index)]
    /\ pc' = [pc EXCEPT ![w] = "del_unlink"]
    /\ UNCHANGED <<index, tmp, lockHolder, op, dirs, files, nextId, constructed, nOps,
                   epoch, last, added, deleted>>
    /\ UNCHANGED <<pathVars, planVars, restVars>>

\* delete_asset, lines 182-186: read, look the id up, return False when absent
DeleteLocked(w) ==
    /\ pc[w] = "locked" /\ op[w].kind = "delete"
    /\ IF ~HasId(ReadIndex(index), op[w].id)
       THEN /\ Ends(w, "False", <<>>, epoch)
            /\ lockHolder' = lockHolder \ {w}
       ELSE /\ data' = [data EXCEPT ![w] = ReadIndex(index)]
            /\ pc' = [pc EXCEPT ![w] = "del_unlink"]
            /\ UNCHANGED <<tmp, op, last, lockHolder>>
    /\ UNCHANGED <<index, dirs, files, nextId, constructed, nOps, epoch, added, deleted>>
    /\ UNCHANGED <<pathVars, planVars, restVars>>

\* A delete_asset whose index update is skipped when unlink raises.
DeleteUnlink_AbortOnError(w, ok) ==
    /\ pc[w] = "del_unlink"
    /\ IF op[w].id \in files
       THEN IF ok
            THEN /\ files' = files \ {op[w].id}
                 /\ dirs' = dirs \ {op[w].id}
                 /\ op' = [op EXCEPT ![w].unlink = "done"]
                 /\ data' = [data EXCEPT ![w] = Pop(@, op[w].id)]
            ELSE /\ op' = [op EXCEPT ![w].unlink = "failed"]
                 /\ UNCHANGED <<files, dirs, data>>
       ELSE /\ ok
            /\ op' = [op EXCEPT ![w].unlink = "no file"]
            /\ data' = [data EXCEPT ![w] = Pop(@, op[w].id)]
            /\ UNCHANGED <<files, dirs>>
    /\ pc' = [pc EXCEPT ![w] = "aw_create"]
    /\ UNCHANGED <<index, tmp, lockHolder, nextId, constructed, nOps, epoch, last,
                   added, deleted>>
    /\ UNCHANGED <<pathVars, planVars, restVars>>

\* delete_asset, lines 187-203: the backing file is unlinked and its directory
\* removed when the file exists; an exception of unlink is logged; in either
\* case the finally block pops the entry and goes on to write the index.
\* ok = FALSE is the run in which unlink raises.
DeleteUnlink(w, ok) ==
    /\ pc[w] = "del_unlink"
    /\ IF op[w].id \in files
       THEN IF ok
            THEN /\ files' = files \ {op[w].id}
                 /\ dirs' = dirs \ {op[w].id}
                 /\ op' = [op EXCEPT ![w].unlink = "done"]
            ELSE /\ op' = [op EXCEPT ![w].unlink = "failed"]
                 /\ UNCHANGED <<files, dirs>>
       ELSE /\ ok
            /\ op' = [op EXCEPT ![w].unlink = "no file"]
            /\ UNCHANGED <<files, dirs>>
    /\ data' = [data EXCEPT ![w] = Pop(@, op[w].id)]
    /\ pc' = [pc EXCEPT ![w] = "aw_create"]
    /\ UNCHANGED <<index, tmp, lockHolder, nextId, constructed, nOps, epoch, last,
                   added, deleted>>
    /\ UNCHANGED <<pathVars, planVars, restVars>>

(* --------------------------- atomic_write ------------------------------ *)
\* An atomic_write that opens the index itself for writing.
AwOpen_InPlace(w) ==
    /\ pc[w] = "aw_create"
    /\ index' = PartialFile(data[w])
    /\ pc' = [pc EXCEPT ![w] = "aw_dump"]
    /\ UNCHANGED <<tmp, lockHolder, op, data, dirs, files, nextId, constructed, nOps,
                   epoch, last, added, deleted>>
    /\ UNCHANGED <<pathVars, planVars, restVars>>

\* lines 93-100: the temporary file is created beside the index and json.dump
\* has written a part of the payload to it
AwOpen(w) ==
    /\ pc[w] = "aw_create"
    /\ tmp' = [tmp EXCEPT ![w] = PartialFile(data[w])]
    /\ pc' = [pc EXCEPT ![w] = "aw_dump"]
    /\ UNCHANGED <<index, lockHolder, op, data, dirs, files, nextId, constructed, nOps,
                   epoch, last, added, deleted>>
    /\ UNCHANGED <<pathVars, planVars, restVars>>

\* lines 100-103: the rest of the payload, flush, fsync, close
AwDump(w) ==
    /\ pc[w] = "aw_dump"
    /\ tmp' = [tmp EXCEPT ![w] = CompleteFile(data[w])]
    /\ pc' = [pc EXCEPT ![w] = "aw_replace"]
    /\ UNCHANGED <<index, lockHolder, op, data, dirs, files, nextId, constructed, nOps,
                   epoch, last, added, deleted>>
    /\ UNCHANGED <<pathVars, planVars, restVars>>

\* line 104, os.replace(tmp.name, index_path), and what the caller does once
\* atomic_write has returned: __init__ returns; add_file leaves the lock and
\* returns the record; delete_asset leaves the lock and returns True.
AwReplace(w) ==
    /\ pc[w] = "aw_replace"
    /\ index' = tmp[w]
    /\ epoch' = epoch + 1
    /\ lockHolder' = lockHolder \ {w}
    /\ constructed' = (constructed \/ op[w].kind = "init")
    /\ CASE op[w].kind = "add"    -> Ends(w, "Asset", <<AssetRecord(op[w])>>, epoch + 1)
         [] op[w].kind = "delete" -> Ends(w, "True", <<>>, epoch + 1)
         [] OTHER                 -> Ends(w, "constructed", <<>>, epoch + 1)
    /\ added' = IF op[w].kind = "add" THEN added \cup {AssetRecord(op[w])} ELSE added
    /\ deleted' = IF op[w].kind = "delete" THEN deleted \cup {op[w].id} ELSE deleted
    /\ UNCHANGED <<dirs, files, nextId, nOps>>
    /\ UNCHANGED <<pathVars, planVars, restVars>>

\* lines 106-114: a step of atomic_write raises (the disk is full, say): the
\* temporary file is unlinked, the exception leaves the with block, which frees
\* the lock, and reaches the caller of add_file or delete_asset.
AwFail(w) ==
    /\ pc[w] \in {"aw_create", "aw_dump", "aw_replace"}
    /\ op[w].kind \in {"add", "delete"}
    /\ Ends(w, "OSError", <<>>, epoch)
    /\ lockHolder' = lockHolder \ {w}
    /\ UNCHANGED <<index, dirs, files, nextId, constructed, nOps, epoch, added, deleted>>
    /\ UNCHANGED <<pathVars, planVars, restVars>>

(* ------------------------------ crash ---------------------------------- *)
\* The process dies in the middle of some call and is started again: memory
\* and the lock are gone, the disk stays as it is, the registry is constructed
\* anew.  (A temporary file left behind has a name of its own and is not read.)
Crash ==
    /\ \E w \in Workers : pc[w] # "idle"
    /\ tmp' = [w \in Workers |-> NoTmp]
    /\ lockHolder' = {}
    /\ pc' = [w \in Workers |-> IF w = 1 THEN "ensure" ELSE "idle"]
    /\ op' = [w \in Workers |-> NoOp]
    /\ data' = [w \in Workers |-> EmptyAssets]
    /\ last' = NoOutcome
    /\ constructed' = FALSE
    /\ UNCHANGED <<index, dirs, files, nextId, nOps, epoch, added, deleted>>
    /\ UNCHANGED <<pathVars, planVars, restVars>>

(* ----------------------------- resolve_path ---------------------------- *)
MaxPathLen == 3     \* components of a stored relpath

\* A path is the sequence of its components below "/".  The data root is /d;
\* config.py returns it resolved.  The disk holds /d/assets/f and /etc/f, and
\* /d/lnk is a symbolic link to /etc.
DataRoot   == <<"d">>
Components == {"assets", "f", "..", "lnk", "d", "etc"}
Existing   == {<<>>, <<"d">>, <<"d", "assets">>, <<"d", "assets", "f">>,
               <<"etc">>, <<"etc", "f">>}
IsLink(p)  == p = <<"d", "lnk">>
LinkTarget(p) == <<"etc">>

\* The relpath strings an index can hold: relative or absolute ("/..."), of up
\* to MaxPathLen components.
RelPaths ==
    {[abs |-> a, parts |-> ps] :
        a \in BOOLEAN,
        ps \in UNION {[1..n -> Components] : n \in 0..MaxPathLen}}

\* DATAPATH / relpath: an absolute right-hand side replaces the left-hand side
JoinPath(root, rel) == IF rel.abs THEN rel.parts ELSE root \o rel.parts

ParentOf(p) == IF p = <<>> THEN p ELSE SubSeq(p, 1, Len(p) - 1)

\* Path.resolve(): the components are walked from the root; ".." steps to the
\* parent of what has been resolved so far, a symbolic link is replaced by its
\* target, names that do not exist are kept.
RECURSIVE ResolveFrom(_, _)
ResolveFrom(cur, rest) ==
    IF rest = <<>> THEN cur
    ELSE IF Head(rest) = ".." THEN ResolveFrom(ParentOf(cur), Tail(rest))
    ELSE IF IsLink(Append(cur, Head(rest)))
         THEN ResolveFrom(LinkTarget(Append(cur, Head(rest))), Tail(rest))
    ELSE ResolveFrom(Append(cur, Head(rest)), Tail(rest))

Resolve(p) == ResolveFrom(<<>>, p)

\* Path.is_relative_to
IsRelativeTo(p, root) == Len(p) >= Len(root) /\ SubSeq(p, 1, Len(root)) = root

NoPathOut      == [tag |-> "none", path |-> <<>>]
PathRaised(e)  == [tag |-> e, path |-> <<>>]
PathReturn(p)  == [tag |-> "path", path |-> p]

\* A resolve_path that tests and returns the joined path as it is written.
ResolvePath_Unresolved(rel) ==
    LET abspath == JoinPath(DataRoot, rel)
    IN  IF ~IsRelativeTo(abspath, Resolve(DataRoot))
        THEN PathRaised("PermissionError")
        ELSE IF Resolve(abspath) \notin Existing
        THEN PathRaised("FileNotFoundError")
        ELSE PathReturn(abspath)

\* resolve_path, lines 272-278
ResolvePath(rel) ==
    LET abspath  == Resolve(JoinPath(DataRoot, rel))
        dataroot == Resolve(DataRoot)
    IN  IF ~IsRelativeTo(abspath, dataroot)
        THEN PathRaised("PermissionError")
        ELSE IF abspath \notin Existing
        THEN PathRaised("FileNotFoundError")
        ELSE PathReturn(abspath)

ResolvePathCall ==
    /\ rpOut = NoPathOut
    /\ rpOut' = ResolvePath(rpAsset)
    /\ UNCHANGED <<rpAsset, regVars, planVars, restVars>>

(* --------------------------- _compute_strategy ------------------------- *)
MaxLabels == 6      \* length of the label list

ClassNames == {"cat", "dog", "emu"}
LabelLists == UNION {[1..n -> ClassNames] : n \in 0..MaxLabels}

\* targetratio: None, or a float given as num/den with den a power of two,
\* so that maxcount * float(targetratio) is exact
NoRatio == [none |-> TRUE, num |-> 0, den |-> 1]
Ratios  == {NoRatio} \cup
           {[none |-> FALSE, num |-> r[1], den |-> r[2]] :
               r \in {<<-1, 1>>, <<0, 1>>, <<1, 4>>, <<1, 2>>, <<3, 4>>, <<1, 1>>,
                      <<3, 2>>, <<2, 1>>}}

\* Counter(y)
CountOf(yy, c) == Cardinality({i \in 1..Len(yy) : yy[i] = c})
ClassesOf(yy)  == {yy[i] : i \in 1..Len(yy)}

MaxOf(S) == CHOOSE m \in S : \A x \in S : x <= m

\* int(x) of the quotient a/b, b > 0: truncation towards zero
IntOfQuotient(a, b) == IF a >= 0 THEN a \div b ELSE 0 - ((0 - a) \div b)

EmptyPlan == [c \in {} |-> 0]

\* A planner that keeps the classes that have reached the target.
ComputeStrategy_Inclusive(yy, tr) ==
    LET eligible == {c \in ClassesOf(yy) : CountOf(yy, c) >= 2}
        maxcount == MaxOf({CountOf(yy, c) : c \in eligible})
        target   == IF tr.none THEN maxcount
                    ELSE IntOfQuotient(maxcount * tr.num, tr.den)
    IN  IF eligible = {} THEN EmptyPlan
        ELSE IF target <= 0 THEN EmptyPlan
        ELSE [c \in {c \in eligible : CountOf(yy, c) <= target} |-> target]

\* A planner that takes every class for eligible.
ComputeStrategy_AnyCount(yy, tr) ==
    LET eligible == ClassesOf(yy)
        maxcount == MaxOf({CountOf(yy, c) : c \in eligible})
        target   == IF tr.none THEN maxcount
                    ELSE IntOfQuotient(maxcount * tr.num, tr.den)
    IN  IF eligible = {} THEN EmptyPlan
        ELSE IF target <= 0 THEN EmptyPlan
        ELSE [c \in {c \in eligible : CountOf(yy, c) < target} |-> target]

\* _compute_strategy, lines 91-104
ComputeStrategy(yy, tr) ==
    LET eligible == {c \in ClassesOf(yy) : CountOf(yy, c) >= 2}
        maxcount == MaxOf({CountOf(yy, c) : c \in eligible})
        target   == IF tr.none THEN maxcount
                    ELSE IntOfQuotient(maxcount * tr.num, tr.den)
    IN  IF eligible = {} THEN EmptyPlan
        ELSE IF target <= 0 THEN EmptyPlan
        ELSE [c \in {c \in eligible : CountOf(yy, c) < target} |-> target]

NoPlan == [done |-> FALSE, map |-> EmptyPlan]

ComputeStrategyCall ==
    /\ ~strategy.done
    /\ strategy' = [done |-> TRUE, map |-> ComputeStrategy(y, targetratio)]
    /\ UNCHANGED <<y, targetratio, regVars, pathVars, restVars>>

(* ------------------------- run_smote, post_smote ----------------------- *)
MaxSamples      == 7    \* samples in one request
MaxSaveFailures == 1    \* rows of a request whose decode or save raises

\* sorted(ClassNames): the order in which imblearn goes through the classes of
\* a sampling_strategy given as a dict
SortedClasses == <<"cat", "dog", "emu">>
SmoteClasses  == {"cat", "dog"}

\* The requests: the samples of one class followed by those of another, each
\* an ImageInfo whose file loads (Image.open, _validate_image, resize) or
\* raises; the first or the last file of a request may fail to load.
Block(c, n) == [i \in 1..n |-> c]
LabelBlocks ==
    {Block(q[1], q[3]) \o Block(q[2], q[4]) :
        q \in {r \in SmoteClasses \X SmoteClasses \X (0..MaxSamples) \X (0..MaxSamples) :
                  r[1] # r[2] /\ r[3] + r[4] <= MaxSamples}}
Batches ==
    UNION {{[i \in 1..Len(ls) |-> [label |-> ls[i], loads |-> i # bad]] :
               bad \in {0, 1, Len(ls)}} : ls \in LabelBlocks}

\* params.randomstate: None, or an int
NoSeed == [none |-> TRUE, value |-> 0]
Seeds  == {NoSeed, [none |-> FALSE, value |-> 1]}
\* what numpy seeds itself with when random_state is None
Entropy == {0, 1}
Neighbors   == {0, 1, 3}
SmoteRatios == {NoRatio, [none |-> FALSE, num |-> 3, den |-> 2]}
ParameterSets ==
    [targetratio : SmoteRatios, kneighbors : Neighbors, randomstate : Seeds]

\* The load loop, lines 127-150: y holds the label of every sample that
\* loaded, in the order of the request; a sample that raises is skipped.
LoadedLabels(samples) ==
    LET ok == SelectSeq(samples, LAMBDA s : s.loads)
    IN  [i \in 1..Len(ok) |-> ok[i].label]

MinOf(S)   == CHOOSE m \in S : \A x \in S : m <= x
Max2(a, b) == IF a >= b THEN a ELSE b
Min2(a, b) == IF a <= b THEN a ELSE b

\* A neighbor count that is not capped by the smallest planned class.
KEff_Uncapped(yy, plan, k) == Max2(1, k)

\* keff, lines 168-170
KEff(yy, plan, k) ==
    LET eligible_counts == {CountOf(yy, c) : c \in DOMAIN plan \cap ClassesOf(yy)}
        min_eligible    == IF eligible_counts # {} THEN MinOf(eligible_counts) ELSE 0
    IN  Max2(1, Min2(k, Max2(1, min_eligible - 1)))

\* One row SMOTE makes for class c: the interpolation between member `row` of
\* the class and its neighbor number `col`, both drawn from the generator.
SmoteRow(c, cnt, k, draw) ==
    [label |-> c, row |-> draw % cnt, col |-> (draw \div cnt) % k]

\* The rows SMOTE makes for class c up to the count n.
ClassRows(c, cnt, n, k, seed) ==
    [i \in 1..(n - cnt) |-> SmoteRow(c, cnt, k, seed + i)]

\* SMOTE(k_neighbors, sampling_strategy, random_state).fit_resample(X, y), the
\* rows after the first len(X): for each class of the strategy, in sorted
\* order, as many rows as bring the class to its target.
RECURSIVE ResampleFrom(_, _, _, _, _)
ResampleFrom(j, yy, plan, k, seed) ==
    IF j > Len(SortedClasses) THEN <<>>
    ELSE LET c == SortedClasses[j]
         IN  (IF c \in DOMAIN plan
              THEN ClassRows(c, CountOf(yy, c), plan[c], k, seed)
              ELSE <<>>)
             \o ResampleFrom(j + 1, yy, plan, k, seed)

FitResample(yy, plan, k, seed) == ResampleFrom(1, yy, plan, k, seed)

NoResponse   == [status |-> 0, count |-> 0]
Http(st, n)  == [status |-> st, count |-> n]
NoFirstRun   == [exit |-> "none", synthetics |-> <<>>, kept |-> <<>>]
NoParams     == [targetratio |-> NoRatio, kneighbors |-> 0, randomstate |-> NoSeed]

\* the label and the image of a synthetic, without the name of its file
Content(s)   == [label |-> s.label, image |-> s.image]
ContentsOf(ss) == [i \in 1..Len(ss) |-> Content(ss[i])]
\* the rows of X_res the synthetics were made of
RowsOf(ss)     == [i \in 1..Len(ss) |-> ss[i].path[4][2]]

\* return SyntheticImages(originals=originals, synthetics=...)
Returns(how, ss) ==
    /\ spc' = "returned"
    /\ sexit' = how
    /\ synthetics' = ss

\* run_smote, lines 121-153
LoadSamples ==
    /\ spc = "load"
    /\ sy' = LoadedLabels(originals)
    /\ IF sy' = <<>>
       THEN Returns("no images", <<>>)
       ELSE /\ spc' = "plan"
            /\ UNCHANGED <<sexit, synthetics>>
    /\ UNCHANGED <<originals, params, srun, splan, skeff, sres, si, sfails,
                   synthDisk, out1, resp>>
    /\ UNCHANGED <<regVars, pathVars, planVars, moreVars>>

\* run_smote, lines 161-170
PlanSamples ==
    /\ spc = "plan"
    /\ splan' = ComputeStrategy(sy, params.targetratio)
    /\ IF DOMAIN splan' = {}
       THEN /\ Returns("no-op", <<>>)
            /\ UNCHANGED skeff
       ELSE /\ skeff' = KEff(sy, splan', params.kneighbors)
            /\ spc' = "fit"
            /\ UNCHANGED <<sexit, synthetics>>
    /\ UNCHANGED <<originals, params, srun, sy, sres, si, sfails, synthDisk, out1, resp>>
    /\ UNCHANGED <<regVars, pathVars, planVars, moreVars>>

\* check_sampling_strategy, which fit_resample starts with, raises ValueError
\* ("The target 'y' needs to have more than 1 class") on a y of one class.
OneClass(yy) == Cardinality(ClassesOf(yy)) <= 1

\* A resampling that takes no seed from the parameters.
SmoteFit_Unseeded ==
    /\ spc = "fit"
    /\ ~OneClass(sy)
    /\ \E seed \in Entropy : sres' = FitResample(sy, splan, skeff, seed)
    /\ spc' = "save"
    /\ si' = 0
    /\ synthetics' = <<>>
    /\ UNCHANGED <<originals, params, srun, sy, splan, skeff, sfails, synthDisk, sexit,
                   out1, resp>>
    /\ UNCHANGED <<regVars, pathVars, planVars, moreVars>>

\* run_smote, lines 173-179 and 185: fit_resample returns
SmoteFit ==
    /\ spc = "fit"
    /\ ~OneClass(sy)
    /\ \E seed \in (IF params.randomstate.none THEN Entropy
                    ELSE {params.randomstate.value}) :
           sres' = FitResample(sy, splan, skeff, seed)
    /\ spc' = "save"
    /\ si' = 0
    /\ synthetics' = <<>>
    /\ UNCHANGED <<originals, params, srun, sy, splan, skeff, sfails, synthDisk, sexit,
                   out1, resp>>
    /\ UNCHANGED <<regVars, pathVars, planVars, moreVars>>

\* run_smote, lines 180-182: fit_resample raises
SmoteFail ==
    /\ spc = "fit"
    /\ OneClass(sy)
    /\ Returns("smote failed", <<>>)
    /\ UNCHANGED <<originals, params, srun, sy, splan, skeff, sres, si, sfails,
                   synthDisk, out1, resp>>
    /\ UNCHANGED <<regVars, pathVars, planVars, moreVars>>

\* the add_file call that stored the one asset of the registry the requests
\* run against
StoredCall == [kind |-> "add", id |-> 1, filename |-> Name_ap, label |-> "cat",
               created |-> 1, src |-> "moved", unlink |-> "none"]

\* the file of row i: ASSETSPATH/synthetic/<label>/<uuid4>-<label>.png
SynthPath(label, run, i) == <<"assets", "synthetic", label, <<run, i>>>>

Synthetic(r, run, i) ==
    [label |-> r.label, image |-> [row |-> r.row, col |-> r.col],
     path |-> SynthPath(r.label, run, i)]

\* A save loop that also enters each synthetic in the asset index.
SaveSynthetic_Registering(ok) ==
    /\ spc = "save"
    /\ si < Len(sres)
    /\ si' = si + 1
    /\ ok
    /\ synthetics' = Append(synthetics, Synthetic(sres[si + 1], srun, si + 1))
    /\ synthDisk' = synthDisk \cup {SynthPath(sres[si + 1].label, srun, si + 1)}
    /\ index' = [index EXCEPT !.assets =
                    Append(@, AssetRecord([StoredCall EXCEPT !.id = nextId + si + 1,
                                              !.label = sres[si + 1].label]))]
    /\ UNCHANGED sfails
    /\ UNCHANGED <<originals, params, spc, srun, sy, splan, skeff, sres, sexit, out1, resp>>
    /\ UNCHANGED <<tmp, lockHolder, pc, op, data, dirs, files, nextId, constructed,
                   nOps, epoch, last, added, deleted>>
    /\ UNCHANGED <<pathVars, planVars, moreVars>>

\* A save loop that gives up at the first row that fails.
SaveSynthetic_AbortOnError(ok) ==
    /\ spc = "save"
    /\ si < Len(sres)
    /\ IF ok
       THEN /\ synthetics' = Append(synthetics, Synthetic(sres[si + 1], srun, si + 1))
            /\ synthDisk' = synthDisk \cup {SynthPath(sres[si + 1].label, srun, si + 1)}
            /\ si' = si + 1
            /\ UNCHANGED sfails
       ELSE /\ sfails < MaxSaveFailures
            /\ sfails' = sfails + 1
            /\ si' = Len(sres)
            /\ UNCHANGED <<synthetics, synthDisk>>
    /\ UNCHANGED <<originals, params, spc, srun, sy, splan, skeff, sres, sexit, out1, resp>>
    /\ UNCHANGED <<regVars, pathVars, planVars, moreVars>>

\* run_smote, lines 187-207: one turn of the save loop; a row whose decode,
\* mkdir or save raises is logged and skipped
SaveSynthetic(ok) ==
    /\ spc = "save"
    /\ si < Len(sres)
    /\ si' = si + 1
    /\ IF ok
       THEN /\ synthetics' = Append(synthetics, Synthetic(sres[si + 1], srun, si + 1))
            /\ synthDisk' = synthDisk \cup {SynthPath(sres[si + 1].label, srun, si + 1)}
            /\ UNCHANGED sfails
       ELSE /\ sfails < MaxSaveFailures
            /\ sfails' = sfails + 1
            /\ UNCHANGED <<synthetics, synthDisk>>
    /\ UNCHANGED <<originals, params, spc, srun, sy, splan, skeff, sres, sexit, out1, resp>>
    /\ UNCHANGED <<regVars, pathVars, planVars, moreVars>>

\* run_smote, lines 209-210
ReturnSynthetics ==
    /\ spc = "save"
    /\ si = Len(sres)
    /\ Returns("saved", synthetics)
    /\ UNCHANGED <<originals, params, srun, sy, splan, skeff, sres, si, sfails,
                   synthDisk, out1, resp>>
    /\ UNCHANGED <<regVars, pathVars, planVars, moreVars>>

\* run_smote is called again on the same samples, with the same parameters.
RunAgain ==
    /\ spc = "returned"
    /\ srun = 1
    /\ out1' = [exit |-> sexit, synthetics |-> ContentsOf(synthetics),
                 kept |-> RowsOf(synthetics)]
    /\ srun' = 2
    /\ spc' = "load"
    /\ sy' = <<>>
    /\ splan' = EmptyPlan
    /\ skeff' = 0
    /\ sres' = <<>>
    /\ si' = 0
    /\ synthetics' = <<>>
    /\ sexit' = "none"
    /\ UNCHANGED <<originals, params, sfails, synthDisk, resp>>
    /\ UNCHANGED <<regVars, pathVars, planVars, moreVars>>

\* post_smote, lines 57-62 and 64-186: what it answers once run_smote has
\* returned
PostSmoteRespond(zipped) ==
    /\ spc = "returned"
    /\ spc' = "responded"
    /\ resp' = IF synthetics = <<>> THEN Http(400, 0)
               ELSE IF zipped THEN Http(200, Len(synthetics))
               ELSE Http(500, 0)
    /\ UNCHANGED <<originals, params, srun, sy, splan, skeff, sres, si, sfails,
                   synthetics, synthDisk, sexit, out1>>
    /\ UNCHANGED <<regVars, pathVars, planVars, moreVars>>

SmoteIdle ==
    /\ originals = <<>> /\ params = NoParams /\ spc = "idle" /\ srun = 1
    /\ sy = <<>> /\ splan = EmptyPlan /\ skeff = 0 /\ sres = <<>> /\ si = 0
    /\ sfails = 0 /\ synthetics = <<>> /\ synthDisk = {} /\ sexit = "none"
    /\ out1 = NoFirstRun /\ resp = NoResponse

(* ------------------ compute_quality_metrics, scoring ------------------- *)
MaxSynth == 3       \* synthetics in the data given to the scorer
MaxOrig  == 2       \* originals in the data given to the scorer

ScoreLabels == {"cat", "zebra"}
\* cosine similarity and SSIM in units of 0.0001, already rounded to 4 places;
\* multiples of 4000, so that no mean of up to four of them falls on a tie of
\* round()
CosScores  == {4000, 8000}
SsimScores == {4000}

\* An original is an ImageInfo whose file opens or not; a synthetic also
\* carries the cosine similarity to its best original and the SSIM with it.
ScoreOriginals  == [label : ScoreLabels, loads : BOOLEAN]
ScoreSynthetics == [label : ScoreLabels, loads : BOOLEAN, cossim : CosScores,
                    ssim : SsimScores]
ScoreInputs ==
    [originals : UNION {[1..n -> ScoreOriginals] : n \in 0..MaxOrig},
     synthetics : UNION {[1..n -> ScoreSynthetics] : n \in 1..MaxSynth}]

\* by_label, lines 47-56: the labels that have an original that opened
ByLabel(orig) == {orig[i].label : i \in {k \in 1..Len(orig) : orig[k].loads}}

\* Metric(synthpath=s.path, cossim=best_cos, ssim=ssim_val); the path is the
\* place of the synthetic in data.synthetics
Metric(i, s) == [synthpath |-> i, cossim |-> s.cossim, ssim |-> s.ssim]

\* A scorer that enters a synthetic without originals with scores of zero.
RECURSIVE QualityFrom_ZeroForUnmatched(_, _, _)
QualityFrom_ZeroForUnmatched(i, synth, labels) ==
    IF i > Len(synth) THEN <<>>
    ELSE (IF synth[i].label \notin labels
          THEN <<[synthpath |-> i, cossim |-> 0, ssim |-> 0]>>
          ELSE IF ~synth[i].loads THEN <<>>
          ELSE <<Metric(i, synth[i])>>)
         \o QualityFrom_ZeroForUnmatched(i + 1, synth, labels)

\* the loop of lines 60-97, from synthetic i on
RECURSIVE QualityFrom(_, _, _)
QualityFrom(i, synth, labels) ==
    IF i > Len(synth) THEN <<>>
    ELSE (IF synth[i].label \notin labels THEN <<>>
          ELSE IF ~synth[i].loads THEN <<>>
          ELSE <<Metric(i, synth[i])>>)
         \o QualityFrom(i + 1, synth, labels)

\* compute_quality_metrics, lines 47-99
ComputeQualityMetrics(d) == QualityFrom(1, d.synthetics, ByLabel(d.originals))

RECURSIVE SumOf(_, _)
SumOf(ms, field) ==
    IF ms = <<>> THEN 0 ELSE Head(ms)[field] + SumOf(Tail(ms), field)

\* round(a / b, 4) in units of 0.0001, away from ties
RoundQuotient(a, b) == (2 * a + b) \div (2 * b)

\* post_smote, lines 95-117 and 125: average_quality over quality_metrics
AverageQuality(ms) ==
    [cosine_similarity |-> IF ms = <<>> THEN 0
                           ELSE RoundQuotient(SumOf(ms, "cossim"), Len(ms)),
     ssim              |-> IF ms = <<>> THEN 0
                           ELSE RoundQuotient(SumOf(ms, "ssim"), Len(ms))]

NoAverage == [cosine_similarity |-> 0, ssim |-> 0]
NoData    == [originals |-> <<>>, synthetics |-> <<>>]

\* post_smote, line 66
ComputeQualityMetricsCall ==
    /\ qpc = "score"
    /\ qreport' = ComputeQualityMetrics(qdata)
    /\ qpc' = "scored"
    /\ UNCHANGED <<qdata, qavg>>
    /\ UNCHANGED <<regVars, pathVars, planVars, smoteVars, paramVars, ingestVars, lateVars>>

\* post_smote, lines 94-126
FormatMetrics ==
    /\ qpc = "scored"
    /\ qavg' = AverageQuality(qreport)
    /\ qpc' = "formatted"
    /\ UNCHANGED <<qdata, qreport>>
    /\ UNCHANGED <<regVars, pathVars, planVars, smoteVars, paramVars, ingestVars, lateVars>>

ScoreIdle == qdata = NoData /\ qpc = "idle" /\ qreport = <<>> /\ qavg = NoAverage

(* ------------------------------ ParamsStore ---------------------------- *)
MaxParamOps == 3    \* calls of ParamsStore.get and ParamsStore.set

\* FileLock(str(self.path.with_suffix(".lock"))): no timeout is given, and
\* the default of filelock is -1, which waits without limit
ParamsLockTimeout == -1

ParamDocs    == {"p1", "p2"}
NoParamsFile == "absent"
NoParamCall  == [kind |-> "none", data |-> "none"]
NoParamOut   == [tag |-> "none", val |-> "none"]

ParamsIdle ==
    /\ plock = {}
    /\ ppc = [w \in Workers |-> "idle"]
    /\ pcall = [w \in Workers |-> NoParamCall]
    /\ pdoc = NoParamsFile
    /\ ptmp = [w \in Workers |-> "none"]
    /\ pout = [w \in Workers |-> NoParamOut]
    /\ pOps = 0
    /\ pwait = [w \in Workers |-> 0]

\* ParamsStore.get() or ParamsStore.set(data) is called: `with self.lock`
ParamsCall(w, kind, d) ==
    /\ ppc[w] = "idle"
    /\ pOps < MaxParamOps
    /\ pOps' = pOps + 1
    /\ pcall' = [pcall EXCEPT ![w] = [kind |-> kind, data |-> d]]
    /\ ppc' = [ppc EXCEPT ![w] = "acquire"]
    /\ pwait' = [pwait EXCEPT ![w] = 0]
    /\ UNCHANGED <<plock, pdoc, ptmp, pout>>
    /\ UNCHANGED <<regVars, pathVars, planVars, smoteVars, scoreVars, ingestVars, lateVars>>

\* One turn of FileLock.acquire: the lock is taken if it is free; a waiter
\* whose timeout is not negative and has run out (0 <= timeout < elapsed)
\* raises Timeout; any other waiter sleeps for the poll interval and tries
\* again.  Time is counted in poll intervals.
ParamsTryLock(w) ==
    /\ ppc[w] = "acquire"
    /\ IF plock = {}
       THEN /\ plock' = {w}
            /\ ppc' = [ppc EXCEPT ![w] = "locked"]
            /\ UNCHANGED <<pcall, pout>>
       ELSE IF 0 <= ParamsLockTimeout /\ ParamsLockTimeout < pwait[w]
       THEN /\ ppc' = [ppc EXCEPT ![w] = "idle"]
            /\ pout' = [pout EXCEPT ![w] = [tag |-> "Timeout", val |-> "none"]]
            /\ pcall' = [pcall EXCEPT ![w] = NoParamCall]
            /\ UNCHANGED plock
       ELSE /\ ppc' = [ppc EXCEPT ![w] = "sleep"]
            /\ UNCHANGED <<plock, pcall, pout>>
    /\ UNCHANGED <<pdoc, ptmp, pOps, pwait>>
    /\ UNCHANGED <<regVars, pathVars, planVars, smoteVars, scoreVars, ingestVars, lateVars>>

\* time.sleep(poll_interval) in FileLock.acquire; the time waited matters
\* only to a lock that has a timeout
ParamsSleep(w) ==
    /\ ppc[w] = "sleep"
    /\ ppc' = [ppc EXCEPT ![w] = "acquire"]
    /\ pwait' = [pwait EXCEPT ![w] = IF 0 <= ParamsLockTimeout THEN @ + 1 ELSE @]
    /\ UNCHANGED <<plock, pcall, pdoc, ptmp, pout, pOps>>
    /\ UNCHANGED <<regVars, pathVars, planVars, smoteVars, scoreVars, ingestVars, lateVars>>

\* get, lines 62-63: _read_unlocked, then the lock is released
ParamsGetLocked(w) ==
    /\ ppc[w] = "locked"
    /\ pcall[w].kind = "get"
    /\ pout' = [pout EXCEPT ![w] =
                  [tag |-> "dict", val |-> IF pdoc = NoParamsFile THEN "{}" ELSE pdoc]]
    /\ plock' = {}
    /\ ppc' = [ppc EXCEPT ![w] = "idle"]
    /\ pcall' = [pcall EXCEPT ![w] = NoParamCall]
    /\ UNCHANGED <<pdoc, ptmp, pOps, pwait>>
    /\ UNCHANGED <<regVars, pathVars, planVars, smoteVars, scoreVars, ingestVars, lateVars>>

\* A set that writes the payload into the params file itself.
ParamsWriteTmp_InPlace(w) ==
    /\ ppc[w] = "locked"
    /\ pcall[w].kind = "set"
    /\ pdoc' = "partly written"
    /\ ptmp' = [ptmp EXCEPT ![w] = pcall[w].data]
    /\ ppc' = [ppc EXCEPT ![w] = "written"]
    /\ UNCHANGED <<plock, pcall, pout, pOps, pwait>>
    /\ UNCHANGED <<regVars, pathVars, planVars, smoteVars, scoreVars, ingestVars, lateVars>>

\* _atomic_write_unlocked, lines 46-52: the payload goes to a temporary file
ParamsWriteTmp(w) ==
    /\ ppc[w] = "locked"
    /\ pcall[w].kind = "set"
    /\ ptmp' = [ptmp EXCEPT ![w] = pcall[w].data]
    /\ ppc' = [ppc EXCEPT ![w] = "written"]
    /\ UNCHANGED <<plock, pcall, pdoc, pout, pOps, pwait>>
    /\ UNCHANGED <<regVars, pathVars, planVars, smoteVars, scoreVars, ingestVars, lateVars>>

\* _atomic_write_unlocked, line 53, and set, line 77: os.replace, return data,
\* and the lock is released
ParamsReplace(w) ==
    /\ ppc[w] = "written"
    /\ pdoc' = ptmp[w]
    /\ ptmp' = [ptmp EXCEPT ![w] = "none"]
    /\ pout' = [pout EXCEPT ![w] = [tag |-> "dict", val |-> pcall[w].data]]
    /\ plock' = {}
    /\ ppc' = [ppc EXCEPT ![w] = "idle"]
    /\ pcall' = [pcall EXCEPT ![w] = NoParamCall]
    /\ UNCHANGED <<pOps, pwait>>
    /\ UNCHANGED <<regVars, pathVars, planVars, smoteVars, scoreVars, ingestVars, lateVars>>

(* ------------------------------- ingest_zip ---------------------------- *)
MaxMembers == 3     \* members of the archive that reach validate_and_save_temp

\* A member that got past safe_member_name, the class folder and
\* is_allowed_image: the last part of its path, its class folder, and whether
\* its bytes pass the image checks of validate_and_save_temp.
MemberNames == {Name_ap, Name_adp}
Members  == [filename : MemberNames, label : Labels, valid : BOOLEAN]
Archives == UNION {[1..n -> Members] : n \in 0..MaxMembers}

\* what add_file does once the name has passed: the move fails; or the file
\* is moved and the index write returns, or raises (lock timeout, OSError)
AddFileOutcomes == {"move failed", "indexed", "index failed"}

IngestIdle ==
    /\ zmembers = <<>> /\ zi = 0 /\ zpc = "idle" /\ ztmp = {} /\ zcreated = <<>>
    /\ zout = "none"

\* ingest_zip, lines 251-254, with validate_and_save_temp: the member is
\* checked (HTTPException when the image is refused) and written to a
\* temporary file (removed again, with HTTPException 500, when the write fails)
ValidateAndSaveTemp(written) ==
    /\ zpc = "member"
    /\ zi < Len(zmembers)
    /\ IF ~zmembers[zi + 1].valid
       THEN /\ zpc' = "done"
            /\ zout' = "HTTPException 400"
            /\ UNCHANGED ztmp
       ELSE IF ~written
       THEN /\ zpc' = "done"
            /\ zout' = "HTTPException 500"
            /\ UNCHANGED ztmp
       ELSE /\ zpc' = "add"
            /\ ztmp' = ztmp \cup {zi + 1}
            /\ UNCHANGED zout
    /\ UNCHANGED <<zmembers, zi, zcreated>>
    /\ UNCHANGED <<regVars, pathVars, planVars, smoteVars, scoreVars, paramVars, lateVars>>

\* ingest_zip, lines 255-263: registry.add_file(tmppath, filename, label).
\* add_file raises ValueError on the name before it touches the file; else it
\* moves the file out of the tmp directory, unless the move fails.  Whatever
\* it raises is logged and the loop goes on.
IngestAddFile(outcome) ==
    /\ zpc = "add"
    /\ zpc' = "member"
    /\ zi' = zi + 1
    /\ IF InvalidFilename(zmembers[zi + 1].filename) \/ outcome = "move failed"
       THEN UNCHANGED <<ztmp, zcreated>>
       ELSE /\ ztmp' = ztmp \ {zi + 1}
            /\ zcreated' = IF outcome = "indexed" THEN Append(zcreated, zi + 1)
                           ELSE zcreated
    /\ UNCHANGED <<zmembers, zout>>
    /\ UNCHANGED <<regVars, pathVars, planVars, smoteVars, scoreVars, paramVars, lateVars>>

\* ingest_zip, lines 265-271
IngestFinish ==
    /\ zpc = "member"
    /\ zi = Len(zmembers)
    /\ zpc' = "done"
    /\ zout' = IF zcreated = <<>> THEN "HTTPException 400" ELSE "created"
    /\ UNCHANGED <<zmembers, zi, ztmp, zcreated>>
    /\ UNCHANGED <<regVars, pathVars, planVars, smoteVars, scoreVars, paramVars, lateVars>>

(* ------------------------------ vec and mat ---------------------------- *)
MaxSide  == 2       \* side of the canonical image, standing for SIZE = (256, 256)
Channels == 3       \* shape = (SIZE[1], SIZE[0], 3)

\* 8-bit RGB pixels
Palette == {<<0, 127, 255>>, <<255, 0, 1>>, <<128, 128, 128>>, <<7, 200, 64>>}

\* np.asarray(img) of an RGB image: rows of columns of pixels
Images == [1..MaxSide -> [1..MaxSide -> Palette]]
CanonicalShape == <<MaxSide, MaxSide, Channels>>

\* A float32 is held as a whole number of halves: 2 * v stands for v.
\* Every integer from 0 to 255 is a float32.
FloatOf(n) == 2 * n
\* -1.0, 0.0, 127.5, 255.0, 255.5, 256.0, 300.0
FloatValues == {-2, 0, 255, 510, 511, 512, 600}

\* truncation towards zero, the integer part of a float
IntPart(h) == IF h >= 0 THEN h \div 2 ELSE 0 - ((0 - h) \div 2)

\* astype(np.uint8) of a float32 is a C cast.  In range it is the integer
\* part.  Out of range the cast is undefined: the x86-64 build converts to a
\* 32-bit signed integer and keeps the low byte; the aarch64 build converts to
\* an unsigned integer, which takes a negative value to 0, and keeps the low
\* byte.
Builds == {"x86-64", "aarch64"}
CastUint8(h, build) ==
    LET t == IntPart(h)
    IN  IF 0 <= t /\ t <= 255 THEN t
        ELSE IF t < 0 /\ build = "aarch64" THEN 0
        ELSE t % 256

\* vec, lines 38-40: a resize to the size the image has returns a copy;
\* arr.reshape(-1) lists the array row by row, pixel by pixel, channel by
\* channel; astype(np.float32)
Vec(img) ==
    LET h == Len(img)
        w == Len(img[1])
    IN  [k \in 1..(h * w * Channels) |->
            FloatOf(img[((k - 1) \div (w * Channels)) + 1]
                       [(((k - 1) \div Channels) % w) + 1]
                       [((k - 1) % Channels) + 1])]

\* A decode that takes the vector to hold one channel after the other.
Mat_ChannelsFirst(v, shape, build) ==
    [r \in 1..shape[1] |-> [c \in 1..shape[2] |-> [ch \in 1..shape[3] |->
        CastUint8(v[(ch - 1) * shape[1] * shape[2] + (r - 1) * shape[2] + c], build)]]]

\* mat, line 54: vec.reshape(shape[0], shape[1], shape[2]).astype(np.uint8)
Mat(v, shape, build) ==
    [r \in 1..shape[1] |-> [c \in 1..shape[2] |-> [ch \in 1..shape[3] |->
        CastUint8(v[((r - 1) * shape[2] + (c - 1)) * shape[3] + ch], build)]]]

VecCall ==
    /\ cpc = "vec"
    /\ cvec' = Vec(cimg)
    /\ cpc' = "mat"
    /\ UNCHANGED <<cimg, cshape, cout>>
    /\ UNCHANGED <<regVars, pathVars, planVars, smoteVars, scoreVars, paramVars,
                   ingestVars, matchVars, delPathVars, loadVars>>

\* reshape raises ValueError unless the vector has shape[0]*shape[1]*shape[2]
\* components
MatCall(build) ==
    /\ cpc = "mat"
    /\ Len(cvec) = cshape[1] * cshape[2] * cshape[3]
    /\ cout' = Mat(cvec, cshape, build)
    /\ cpc' = "done"
    /\ UNCHANGED <<cimg, cshape, cvec>>
    /\ UNCHANGED <<regVars, pathVars, planVars, smoteVars, scoreVars, paramVars,
                   ingestVars, matchVars, delPathVars, loadVars>>

CodecIdle ==
    cimg = <<>> /\ cshape = <<0, 0, 0>> /\ cvec = <<>> /\ cout = <<>> /\ cpc = "idle"

(* ------------- compute_quality_metrics, the best original -------------- *)
MaxCands == 3       \* loaded originals with the label of the synthetic

\* best_cos = -1.0, in units of 0.0001
SentinelCos == -10000

\* An original that loaded, as the loop of lines 79-87 meets it: whether
\* cosine_similarity returns for it (it raises when the two vectors differ in
\* length, as for a greyscale original and an RGB synthetic) and with what
\* score, and whether structural_similarity returns for it.
Candidates == [comparable : BOOLEAN, cos : {2000, 9000}, ssimok : BOOLEAN]
CandidateLists == UNION {[1..n -> Candidates] : n \in 1..MaxCands}

\* structural_similarity with original i, in units of 0.0001: a value of its
\* own for every original
SsimWith(i) == 1000 * i

\* A search in which a later original with an equal score replaces the best.
RECURSIVE BestFrom_LastWins(_, _, _, _)
BestFrom_LastWins(cands, i, bestcos, best) ==
    IF i > Len(cands) THEN [cos |-> bestcos, best |-> best]
    ELSE IF cands[i].comparable /\ cands[i].cos >= bestcos
    THEN BestFrom_LastWins(cands, i + 1, cands[i].cos, i)
    ELSE BestFrom_LastWins(cands, i + 1, bestcos, best)

\* lines 76-87: the loop over originals from original i on; best is the place
\* of best_o_arr, 0 for None
RECURSIVE BestFrom(_, _, _, _)
BestFrom(cands, i, bestcos, best) ==
    IF i > Len(cands) THEN [cos |-> bestcos, best |-> best]
    ELSE IF cands[i].comparable /\ cands[i].cos > bestcos
    THEN BestFrom(cands, i + 1, cands[i].cos, i)
    ELSE BestFrom(cands, i + 1, bestcos, best)

\* lines 76-97 for one synthetic that loaded: the Metric appended to results,
\* with the original it was scored against
ScoreOne(cands) ==
    LET b == BestFrom(cands, 1, SentinelCos, 0)
        ssimval == IF b.best # 0 /\ cands[b.best].ssimok THEN SsimWith(b.best) ELSE 0
    IN  <<[cossim |-> b.cos, ssim |-> ssimval, best |-> b.best]>>

ScoreOneCall ==
    /\ mpc = "score"
    /\ mout' = ScoreOne(mcands)
    /\ mpc' = "done"
    /\ UNCHANGED mcands
    /\ UNCHANGED <<regVars, pathVars, planVars, smoteVars, scoreVars, paramVars,
                   ingestVars, codecVars, delPathVars, loadVars>>

MatchIdle == mcands = <<>> /\ mpc = "idle" /\ mout = <<>>

(* ------------------- delete_asset, the backing file -------------------- *)
\* The disk of resolve_path, with its symbolic link: what exists below "/".
AssetsRoot == DataRoot \o <<"assets">>
WholeDisk  == Existing \cup {<<"d", "lnk">>}
IsFile(p)  == p # <<>> /\ p[Len(p)] = "f"

\* The directory entry a path names, as the kernel walks it: every component
\* on the way must exist, a symbolic link on the way is followed, ".." is the
\* parent of the directory reached.  <<p>> when the walk arrives, <<>> when
\* it fails (ENOENT, ENOTDIR).
RECURSIVE Walk(_, _, _)
Walk(disk, cur, rest) ==
    IF rest = <<>> THEN <<cur>>
    ELSE IF IsFile(cur) THEN <<>>
    ELSE IF Head(rest) = ".." THEN Walk(disk, ParentOf(cur), Tail(rest))
    ELSE LET nxt == Append(cur, Head(rest))
         IN  IF nxt \notin disk THEN <<>>
             ELSE IF IsLink(nxt) THEN Walk(disk, LinkTarget(nxt), Tail(rest))
             ELSE Walk(disk, nxt, Tail(rest))

\* Path.exists()
PathExists(disk, p) == Walk(disk, <<>>, p) # <<>>

\* The entry unlink and rmdir act on: the last component is not followed.
\* <<>> when there is none (the path ends in "..", or is "/").
EntryOf(disk, p) ==
    IF p = <<>> \/ p[Len(p)] = ".." THEN <<>>
    ELSE LET dir == Walk(disk, <<>>, ParentOf(p))
         IN  IF dir = <<>> \/ IsFile(dir[1]) THEN <<>>
             ELSE IF Append(dir[1], p[Len(p)]) \in disk
             THEN <<Append(dir[1], p[Len(p)])>> ELSE <<>>

IsEmptyDir(disk, d) ==
    /\ ~IsFile(d) /\ ~IsLink(d)
    /\ ~\E q \in disk : Len(q) > Len(d) /\ SubSeq(q, 1, Len(d)) = d

\* delete_asset, lines 187-192: abspath = DATAPATH / relpath, taken as it is
\* written; when it exists it is unlinked.  unlink of a directory raises, and
\* line 198 logs it.
DeleteAssetUnlink ==
    /\ dppc = "unlink"
    /\ LET abspath == JoinPath(DataRoot, dprel)
           entry   == EntryOf(dpdisk, abspath)
       IN  IF PathExists(dpdisk, abspath) /\ entry # <<>>
              /\ (IsFile(entry[1]) \/ IsLink(entry[1]))
           THEN /\ dpdisk' = dpdisk \ {entry[1]}
                /\ dpgone' = dpgone \cup {entry[1]}
                /\ dppc' = "rmdir"
           ELSE /\ dppc' = "pop"
                /\ UNCHANGED <<dpdisk, dpgone>>
    /\ UNCHANGED dprel
    /\ UNCHANGED <<regVars, pathVars, planVars, smoteVars, scoreVars, paramVars,
                   ingestVars, codecVars, matchVars, loadVars>>

\* delete_asset, lines 193-198: the parent of abspath, unless it is written as
\* the assets root, is removed when it is an empty directory (OSError passes)
DeleteAssetRmdir ==
    /\ dppc = "rmdir"
    /\ LET parent == ParentOf(JoinPath(DataRoot, dprel))
           entry  == EntryOf(dpdisk, parent)
       IN  IF parent # AssetsRoot /\ entry # <<>> /\ IsEmptyDir(dpdisk, entry[1])
           THEN /\ dpdisk' = dpdisk \ {entry[1]}
                /\ dpgone' = dpgone \cup {entry[1]}
           ELSE UNCHANGED <<dpdisk, dpgone>>
    /\ dppc' = "pop"
    /\ UNCHANGED dprel
    /\ UNCHANGED <<regVars, pathVars, planVars, smoteVars, scoreVars, paramVars,
                   ingestVars, codecVars, matchVars, loadVars>>

DelPathIdle ==
    /\ dprel = [abs |-> FALSE, parts |-> <<>>] /\ dpdisk = WholeDisk
    /\ dppc = "idle" /\ dpgone = {}

(* ------------------------------ load_params ---------------------------- *)
\* ParameterSet(): the defaults
DefaultParams == "defaults"

\* json.loads of the text of the file, then ParameterSet(**data); a text that
\* is not a whole document raises, and line 75 returns the defaults
ParseParams(doc) == IF doc \in ParamDocs THEN doc ELSE DefaultParams

\* load_params, lines 64-67: settings_path.exists(); no lock is taken
LoadParamsExists ==
    /\ lpc = "exists"
    /\ lsaw' = IF pdoc = NoParamsFile THEN "absent" ELSE "present"
    /\ lpc' = IF pdoc = NoParamsFile THEN "done" ELSE "read"
    /\ lout' = IF pdoc = NoParamsFile THEN DefaultParams ELSE lout
    /\ UNCHANGED <<regVars, pathVars, planVars, smoteVars, scoreVars, paramVars,
                   ingestVars, codecVars, matchVars, delPathVars>>

\* load_params, lines 68-75: read_text opens the file and reads what it holds
LoadParamsRead ==
    /\ lpc = "read"
    /\ lout' = ParseParams(pdoc)
    /\ lpc' = "done"
    /\ UNCHANGED lsaw
    /\ UNCHANGED <<regVars, pathVars, planVars, smoteVars, scoreVars, paramVars,
                   ingestVars, codecVars, matchVars, delPathVars>>

LoadIdle == lpc = "idle" /\ lsaw = "none" /\ lout = "none"

LateIdle == CodecIdle /\ MatchIdle /\ DelPathIdle /\ LoadIdle

MoreIdle == ScoreIdle /\ ParamsIdle /\ IngestIdle /\ LateIdle

(* --------------------------- specification ----------------------------- *)
PathIdle == rpAsset = [abs |-> FALSE, parts |-> <<>>] /\ rpOut = NoPathOut
PlanIdle == y = <<>> /\ targetratio = NoRatio /\ strategy = NoPlan

RestIdle == SmoteIdle /\ MoreIdle

Init == RegistryInit /\ PathIdle /\ PlanIdle /\ RestIdle

\* The ids a caller passes to get_asset and delete_asset: the ones drawn so
\* far, and one that no add_file has drawn.
KnownIds == 1..(nextId + 1)

Next ==
    \/ \E w \in Workers : EnsureIndex(w)
    \/ \E w \in Workers : Acquire(w)
    \/ \E w \in Workers : LockTimeout(w)
    \/ \E w \in Workers, fn \in FileNames, l \in Labels : CallAddFile(w, fn, l)
    \/ \E w \in Workers : AddLocked(w)
    \/ \E w \in Workers, id \in KnownIds : CallDeleteAsset(w, id)
    \/ \E w \in Workers, id \in KnownIds : CallGetAsset(w, id)
    \/ \E w \in Workers : CallListAssets(w)
    \/ \E w \in Workers : GetLocked(w)
    \/ \E w \in Workers : ListLocked(w)
    \/ \E w \in Workers : DeleteLocked(w)
    \/ \E w \in Workers, ok \in BOOLEAN : DeleteUnlink(w, ok)
    \/ \E w \in Workers : AwOpen(w)
    \/ \E w \in Workers : AwDump(w)
    \/ \E w \in Workers : AwReplace(w)
    \/ \E w \in Workers : AwFail(w)
    \/ Crash

Spec == Init /\ [][Next]_vars

\* The scheduler runs every thread that waits for the lock: its acquisition
\* loop takes another turn.
FairSpec == Spec /\ \A w \in Workers : WF_vars(AcquireStep(w))

\* resolve_path applied to an asset with any stored relpath
InitResolve == RegistryInit /\ PlanIdle /\ RestIdle /\ rpAsset \in RelPaths
               /\ rpOut = NoPathOut
NextResolve == ResolvePathCall
SpecResolve == InitResolve /\ [][NextResolve]_vars

\* _compute_strategy applied to any label list and target ratio
InitPlan == RegistryInit /\ PathIdle /\ RestIdle /\ y \in LabelLists
            /\ targetratio \in Ratios /\ strategy = NoPlan
NextPlan == ComputeStrategyCall
SpecPlan == InitPlan /\ [][NextPlan]_vars

\* run_smote and post_smote, on a registry that holds one asset
StoredRegistry ==
    /\ index = CompleteFile(<<AssetRecord(StoredCall)>>)
    /\ tmp = [w \in Workers |-> NoTmp]
    /\ lockHolder = {}
    /\ pc = [w \in Workers |-> "idle"]
    /\ op = [w \in Workers |-> NoOp]
    /\ data = [w \in Workers |-> EmptyAssets]
    /\ dirs = {1}
    /\ files = {1}
    /\ nextId = 1
    /\ constructed = TRUE
    /\ nOps = 1
    /\ epoch = 2
    /\ last = Outcome("Asset", <<AssetRecord(StoredCall)>>, StoredCall, 2)
    /\ added = {AssetRecord(StoredCall)}
    /\ deleted = {}

InitSmote ==
    /\ StoredRegistry /\ PathIdle /\ PlanIdle /\ MoreIdle
    /\ originals \in Batches /\ params \in ParameterSets /\ spc = "load" /\ srun = 1
    /\ sy = <<>> /\ splan = EmptyPlan /\ skeff = 0 /\ sres = <<>> /\ si = 0
    /\ sfails = 0 /\ synthetics = <<>> /\ synthDisk = {} /\ sexit = "none"
    /\ out1 = NoFirstRun /\ resp = NoResponse
NextSmote ==
    \/ LoadSamples
    \/ PlanSamples
    \/ SmoteFit
    \/ SmoteFail
    \/ \E ok \in BOOLEAN : SaveSynthetic(ok)
    \/ ReturnSynthetics
    \/ RunAgain
    \/ \E zipped \in BOOLEAN : PostSmoteRespond(zipped)
SpecSmote == InitSmote /\ [][NextSmote]_vars

\* compute_quality_metrics and the averages of post_smote
InitScore ==
    /\ RegistryInit /\ PathIdle /\ PlanIdle /\ SmoteIdle /\ ParamsIdle /\ IngestIdle
    /\ LateIdle
    /\ qdata \in ScoreInputs /\ qpc = "score" /\ qreport = <<>> /\ qavg = NoAverage
NextScore == ComputeQualityMetricsCall \/ FormatMetrics
SpecScore == InitScore /\ [][NextScore]_vars

\* ParamsStore, called from several threads
InitParams ==
    /\ RegistryInit /\ PathIdle /\ PlanIdle /\ SmoteIdle /\ ScoreIdle /\ IngestIdle
    /\ LateIdle
    /\ ParamsIdle
NextParams ==
    \/ \E w \in Workers, d \in ParamDocs : ParamsCall(w, "set", d)
    \/ \E w \in Workers : ParamsCall(w, "get", "none")
    \/ \E w \in Workers : ParamsTryLock(w)
    \/ \E w \in Workers : ParamsSleep(w)
    \/ \E w \in Workers : ParamsGetLocked(w)
    \/ \E w \in Workers : ParamsWriteTmp(w)
    \/ \E w \in Workers : ParamsReplace(w)
SpecParams == InitParams /\ [][NextParams]_vars
\* A thread that waits for the lock keeps running the loop of
\* FileLock.acquire.  The lock is a file that other threads and processes
\* share: its holder may be stopped or held up in its file operations for any
\* length of time, so nothing is assumed of the steps taken under the lock.
FairParams ==
    SpecParams /\ \A w \in Workers : WF_vars(ParamsTryLock(w)) /\ WF_vars(ParamsSleep(w))

\* ingest_zip on an archive
InitIngest ==
    /\ RegistryInit /\ PathIdle /\ PlanIdle /\ SmoteIdle /\ ScoreIdle /\ ParamsIdle
    /\ LateIdle
    /\ zmembers \in Archives /\ zi = 0 /\ zpc = "member" /\ ztmp = {}
    /\ zcreated = <<>> /\ zout = "none"
NextIngest ==
    \/ \E written \in BOOLEAN : ValidateAndSaveTemp(written)
    \/ \E outcome \in AddFileOutcomes : IngestAddFile(outcome)
    \/ IngestFinish
SpecIngest == InitIngest /\ [][NextIngest]_vars

\* everything but the registry and the late parts at rest
EarlyIdle ==
    PathIdle /\ PlanIdle /\ SmoteIdle /\ ScoreIdle /\ ParamsIdle /\ IngestIdle

\* vec, then mat, on an image of the canonical size
InitCodec ==
    /\ RegistryInit /\ EarlyIdle /\ MatchIdle /\ DelPathIdle /\ LoadIdle
    /\ cimg \in Images /\ cshape = CanonicalShape /\ cvec = <<>> /\ cout = <<>>
    /\ cpc = "vec"
NextCodec == VecCall \/ \E build \in Builds : MatCall(build)
SpecCodec == InitCodec /\ [][NextCodec]_vars

\* mat on any vector of one pixel
InitDecode ==
    /\ RegistryInit /\ EarlyIdle /\ MatchIdle /\ DelPathIdle /\ LoadIdle
    /\ cimg = <<>> /\ cshape = <<1, 1, Channels>>
    /\ cvec \in [1..Channels -> FloatValues] /\ cout = <<>> /\ cpc = "mat"
NextDecode == \E build \in Builds : MatCall(build)
SpecDecode == InitDecode /\ [][NextDecode]_vars

\* one synthetic that loaded, and the loaded originals of its label
InitMatch ==
    /\ RegistryInit /\ EarlyIdle /\ CodecIdle /\ DelPathIdle /\ LoadIdle
    /\ mcands \in CandidateLists /\ mpc = "score" /\ mout = <<>>
NextMatch == ScoreOneCall
SpecMatch == InitMatch /\ [][NextMatch]_vars

\* delete_asset on a record with any stored relpath
InitDeletePath ==
    /\ RegistryInit /\ EarlyIdle /\ CodecIdle /\ MatchIdle /\ LoadIdle
    /\ dprel \in RelPaths /\ dpdisk = WholeDisk /\ dppc = "unlink" /\ dpgone = {}
NextDeletePath == DeleteAssetUnlink \/ DeleteAssetRmdir
SpecDeletePath == InitDeletePath /\ [][NextDeletePath]_vars

\* load_params while threads call ParamsStore.set
InitLoad ==
    /\ RegistryInit /\ EarlyIdle /\ CodecIdle /\ MatchIdle /\ DelPathIdle
    /\ lpc = "exists" /\ lsaw = "none" /\ lout = "none"
NextLoad ==
    \/ \E w \in Workers, d \in ParamDocs : ParamsCall(w, "set", d)
    \/ \E w \in Workers : ParamsTryLock(w)
    \/ \E w \in Workers : ParamsSleep(w)
    \/ \E w \in Workers : ParamsWriteTmp(w)
    \/ \E w \in Workers : ParamsReplace(w)
    \/ LoadParamsExists
    \/ LoadParamsRead
SpecLoad == InitLoad /\ [][NextLoad]_vars

\* Several processes start on the same data directory: each worker is a
\* process that constructs an AssetRegistry of its own on the one index and
\* lock file, and then adds files.
InitBoot ==
    /\ index = AbsentFile
    /\ tmp = [w \in Workers |-> NoTmp]
    /\ lockHolder = {}
    /\ pc = [w \in Workers |-> "ensure"]
    /\ op = [w \in Workers |-> NoOp]
    /\ data = [w \in Workers |-> EmptyAssets]
    /\ dirs = {} /\ files = {} /\ nextId = 0 /\ constructed = FALSE /\ nOps = 0
    /\ epoch = 0 /\ last = NoOutcome /\ added = {} /\ deleted = {}
    /\ EarlyIdle /\ LateIdle
NextBoot ==
    \/ \E w \in Workers : EnsureIndex(w)
    \/ \E w \in Workers : Acquire(w)
    \/ \E w \in Workers : LockTimeout(w)
    \/ \E w \in Workers, fn \in FileNames, l \in Labels : CallAddFile(w, fn, l)
    \/ \E w \in Workers : AddLocked(w)
    \/ \E w \in Workers : AwOpen(w)
    \/ \E w \in Workers : AwDump(w)
    \/ \E w \in Workers : AwReplace(w)
    \/ \E w \in Workers : AwFail(w)
SpecBoot == InitBoot /\ [][NextBoot]_vars

(* ======================= properties of the registry ==================== *)
RecordsOf(assets) == {assets[i] : i \in 1..Len(assets)}
AddedIds == {r.id : r \in added}

\* The step is a crash of the process.
CrashStep == constructed /\ ~constructed'

C2_AtomicIndex ==
    /\ [](index.state \in {"absent", "complete"})
    /\ [][index' # index =>
             \E w \in Workers : /\ pc[w] = "aw_replace"
                                /\ tmp[w] = CompleteFile(data[w])
                                /\ index' = CompleteFile(data[w])]_vars
    /\ [][CrashStep => index' = index]_vars

\* A writer is in the middle of atomic_write, its temporary file partly
\* written, and the index still holds the complete previous document.
C2_Witness ==
    \E w \in Workers : /\ pc[w] = "aw_dump"
                       /\ tmp[w].state = "partial"
                       /\ index.state = "complete"
                       /\ index.assets # <<>>
                       /\ index.assets # data[w]

\* C3: a call that waits for the index lock does not wait forever (every
\* thread is again and again not waiting), and it leaves the wait only by
\* holding the lock or by raising the lock timeout to its caller.
C3_BoundedLockWait ==
    /\ \A w \in Workers : []<>(pc[w] # "acquire")
    /\ [][\A w \in Workers :
            (pc[w] = "acquire" /\ pc'[w] # "acquire" /\ ~CrashStep) =>
                \/ pc'[w] = "locked" /\ lockHolder' = {w}
                \/ pc'[w] = "idle" /\ last'.tag = "Timeout" /\ last'.call = op[w]]_vars

\* A call has failed with the lock timeout while another call held the lock.
C3_Witness ==
    /\ last.tag = "Timeout"
    /\ last.call.kind \in {"list", "get", "delete", "add"}
    /\ lockHolder # {}

\* The file name has a path separator or a parent-directory segment.
Traversal(fn) == HasSlash(fn) \/ \E i \in 1..Len(Split(fn)) : Split(fn)[i] = <<".", ".">>

\* C4: add_file with a file name that has a path separator or a ".." segment
\* raises ValueError before it changes anything: no call with such a name gets
\* past the check, the rejected call's id has no directory, no file and no
\* index entry, its source file is where it was, and the rejecting step leaves
\* the index and the asset tree as they are.
C4_RejectsTraversal ==
    /\ [](\A w \in Workers : op[w].kind = "add" => ~Traversal(op[w].filename))
    /\ []((last.call.kind = "add" /\ Traversal(last.call.filename)) =>
              last.tag = "ValueError")
    /\ [](last.tag = "ValueError" =>
              /\ last.call.src = "present"
              /\ last.call.id \notin (dirs \cup files \cup IdsOf(index.assets)))
    /\ [][(last'.tag = "ValueError" /\ last' # last) =>
              (index' = index /\ dirs' = dirs /\ files' = files /\ epoch' = epoch)]_vars

\* add_file was called with "../a" while the index held an entry, and raised.
C4_Witness ==
    /\ last.tag = "ValueError"
    /\ last.call.filename = Name_up
    /\ index.assets # <<>>

\* C6: delete_asset with an id that is not in the index returns False and does
\* nothing else: the step in which it finds the id absent ends the call with
\* False and leaves the index, the files and the directories as they are.
C6_DeleteUnknown ==
    /\ [][\A w \in Workers :
            (/\ pc[w] = "locked" /\ op[w].kind = "delete"
             /\ ~HasId(ReadIndex(index), op[w].id)
             /\ pc'[w] # pc[w] /\ ~CrashStep) =>
                /\ pc'[w] = "idle"
                /\ last'.tag = "False" /\ last'.call = op[w]
                /\ index' = index /\ files' = files /\ dirs' = dirs
                /\ epoch' = epoch]_vars
    /\ [](last.tag = "False" => last.call.kind = "delete")

\* delete_asset of an unknown id has returned False; the index has entries.
C6_Witness ==
    /\ last.tag = "False"
    /\ index.assets # <<>>
    /\ ~HasId(index.assets, last.call.id)

\* C7: when delete_asset returns True the index has no entry for the id
\* (get_asset would return None) and the backing file is gone unless unlink
\* failed; a failed unlink does not keep the entry in the index.
C7_DeleteKnown ==
    last.tag = "True" =>
        /\ last.call.kind = "delete"
        /\ last.call.id \in deleted
        /\ ~HasId(index.assets, last.call.id)
        /\ GetValue(ReadIndex(index), last.call.id) = <<>>
        /\ last.call.unlink \in {"done", "failed", "no file"}
        /\ last.call.unlink # "failed" => last.call.id \notin files

\* delete_asset returned True although unlink failed: the file is still
\* there, the entry is not.
C7_Witness ==
    /\ last.tag = "True"
    /\ last.call.unlink = "failed"
    /\ last.call.id \in files
    /\ ~HasId(index.assets, last.call.id)

\* C8: get_asset and list_assets are reads.  The step that ends one leaves the
\* index, the files and the directories as they are, and when the call that
\* ended just before it was the same read, with no index replacement since,
\* the two return equal values.
C8_ReadsPure ==
    [][\A w \in Workers :
         (/\ pc[w] = "locked" /\ op[w].kind \in {"get", "list"}
          /\ pc'[w] = "idle" /\ ~CrashStep) =>
             /\ index' = index /\ files' = files /\ dirs' = dirs
             /\ (/\ last.tag \in {"Asset", "List"}
                 /\ last.call.kind = op[w].kind
                 /\ last.call.id = op[w].id
                 /\ last.epoch = epoch) => last'.val = last.val]_vars

\* A get_asset has returned the record of the only add_file call, as the third
\* call after construction, with no entry removed.
C8_Witness ==
    /\ last.tag = "Asset" /\ last.call.kind = "get"
    /\ last.val # <<>>
    /\ nOps = 3 /\ nextId = 1 /\ deleted = {}

\* C9: a record written by add_file stays as it was written.  Every step keeps
\* every record of the index, unless it is the os.replace of a delete_asset
\* for that record's id; and every record add_file returned is in the index,
\* unchanged, until a delete_asset has removed its id.
C9_RecordsImmutable ==
    /\ [][\A r \in RecordsOf(index.assets) :
            \/ r \in RecordsOf(index'.assets)
            \/ \E w \in Workers : /\ pc[w] = "aw_replace"
                                  /\ op[w].kind = "delete"
                                  /\ op[w].id = r.id]_vars
    /\ [](\A r \in added : r.id \notin deleted => r \in RecordsOf(index.assets))

\* The record of the first add_file is in the index as it was returned, after
\* another asset was added and deleted.
C9_Witness ==
    /\ deleted = {2}
    /\ \E r \in added : r.id = 1 /\ r \in RecordsOf(index.assets)

(* ===================== properties of resolve_path ====================== *)
\* The stored relpath is adversarial: absolute, or with a ".." segment, or
\* through the link.
Adversarial(rel) ==
    rel.abs \/ \E i \in 1..Len(rel.parts) : rel.parts[i] \in {"..", "lnk"}

\* C5: whatever relpath the asset holds, resolve_path raises or returns a path
\* that lies, once links and ".." are followed, at or below the data root.
C5_ResolveInsideRoot ==
    /\ rpOut.tag \in {"none", "path", "PermissionError", "FileNotFoundError"}
    /\ rpOut.tag = "path" =>
          /\ IsRelativeTo(Resolve(rpOut.path), DataRoot)
          /\ rpOut.path \in Existing

\* resolve_path refused an adversarial relpath that leads out of the data root.
C5_Witness ==
    /\ Adversarial(rpAsset)
    /\ rpOut.tag = "PermissionError"
    /\ ~IsRelativeTo(Resolve(JoinPath(DataRoot, rpAsset)), DataRoot)

(* =================== properties of _compute_strategy =================== *)
\* C10: every label of the returned mapping has fewer samples than its target,
\* all targets are one value, not below 0, and with the ratio unset that value
\* is the largest count over all labels of the input.
C10_PlanBelowTarget ==
    strategy.done =>
        \A c \in DOMAIN strategy.map :
            /\ CountOf(y, c) < strategy.map[c]
            /\ strategy.map[c] >= 0
            /\ \A d \in DOMAIN strategy.map : strategy.map[d] = strategy.map[c]
            /\ targetratio.none =>
                  strategy.map[c] = MaxOf({CountOf(y, k) : k \in ClassNames})

\* A plan with the ratio unset that leaves out the majority class and a class
\* with a single sample.
C10_Witness ==
    /\ strategy.done /\ targetratio.none
    /\ DOMAIN strategy.map # {}
    /\ \E c \in ClassesOf(y) : CountOf(y, c) = 1

(* ================= properties of synthesis (SpecSmote) ================= *)
SynthCount(ss, c) == Cardinality({i \in 1..Len(ss) : ss[i].label = c})
Planned   == DOMAIN splan
RunOver   == spc \in {"returned", "responded"}

\* C11: the plan run_smote works with holds no label with fewer than 2 loaded
\* samples; and when every label has fewer than 2 samples run_smote goes no
\* further than the plan: it returns, by the empty plan, with no synthetics.
C11_NoSmallClassPlanned ==
    /\ \A c \in Planned : CountOf(sy, c) >= 2
    /\ (spc # "load" /\ sy # <<>> /\ \A c \in ClassNames : CountOf(sy, c) < 2)
          => (spc \in {"plan", "returned", "responded"} /\ Planned = {}
              /\ synthetics = <<>> /\ sexit \in {"none", "no-op"})

\* Scenario D has run: one class with one sample, and run_smote has returned.
C11_Witness ==
    /\ spc = "returned" /\ sexit = "no-op"
    /\ Len(originals) = 1 /\ sy = <<"cat">> /\ synthetics = <<>>

\* C12: whenever the plan is not empty the effective neighbor count is
\* max(1, min(k, m - 1)), m the smallest count among the planned labels; for
\* {cat: 5, dog: 2} with the ratio unset the plan is {dog: 5} and the count 1.
C12_NeighborCount ==
    /\ Planned # {} =>
          skeff = Max2(1, Min2(params.kneighbors,
                               MinOf({CountOf(sy, c) : c \in Planned}) - 1))
    /\ (spc \in {"fit", "save"} /\ params.targetratio.none
        /\ CountOf(sy, "cat") = 5 /\ CountOf(sy, "dog") = 2)
          => (splan = [c \in {"dog"} |-> 5] /\ skeff = 1)

\* Scenario A has been planned, with a configured default above the cap.
C12_Witness ==
    /\ spc = "fit" /\ params.targetratio.none /\ params.kneighbors = 3
    /\ CountOf(sy, "cat") = 5 /\ CountOf(sy, "dog") = 2 /\ skeff = 1

\* C13: a run with a non-empty plan, none of whose rows failed to decode or
\* save, returns exactly target - current synthetics for each planned label
\* and none for the other labels.
C13_ExactCount ==
    (spc = "returned" /\ Planned # {} /\ sfails = 0) =>
        \A c \in ClassNames :
            SynthCount(synthetics, c) =
                IF c \in Planned THEN splan[c] - CountOf(sy, c) ELSE 0

AssetPath(r) == <<r.relpath.root, r.relpath.dir, r.relpath.name>>

\* C15: no step of run_smote or post_smote changes the index file, and no
\* synthetic file is the file of an entry of the index.
C15_IndexUntouched ==
    /\ [][index' = index]_vars
    /\ [](\A i \in 1..Len(ReadIndex(index)) :
             /\ AssetPath(ReadIndex(index)[i]) \notin synthDisk
             /\ ReadIndex(index)[i] \in added)

\* A request has saved synthetics and been answered, the index holding its asset.
C15_Witness ==
    /\ spc = "responded" /\ resp.status = 200 /\ synthDisk # {}
    /\ Len(ReadIndex(index)) = 1

\* C17 as stated: a request whose synthesis is a no-op (no class eligible, or
\* none below the target) is answered with an empty result, not with an error.
C17_NoOpIsNotAnError ==
    (spc = "responded" /\ sexit = "no-op") => (resp.status < 400 /\ resp.count = 0)

\* the samples that load, in order, computed one sample at a time
RECURSIVE Surviving(_)
Surviving(samples) ==
    IF samples = <<>> THEN <<>>
    ELSE (IF Head(samples).loads THEN <<Head(samples).label>> ELSE <<>>)
         \o Surviving(Tail(samples))

\* C18: a sample that fails to load is skipped and every other sample is in
\* y and planned over; a row that fails to decode or save is skipped and
\* every other row is saved and returned, in the order of the rows.
C18_ItemFailuresSkipped ==
    /\ spc # "load" => sy = Surviving(originals)
    /\ spc \in {"fit", "save"} => splan = ComputeStrategy(Surviving(originals),
                                                         params.targetratio)
    /\ (spc = "returned" /\ sexit = "saved") =>
          /\ Len(synthetics) + sfails >= Len(sres)
          /\ \A j \in 1..Len(synthetics) :
                /\ RowsOf(synthetics)[j] \in 1..Len(sres)
                /\ synthetics[j].label = sres[RowsOf(synthetics)[j]].label
                /\ synthetics[j].image.row = sres[RowsOf(synthetics)[j]].row
                /\ j > 1 => RowsOf(synthetics)[j - 1] < RowsOf(synthetics)[j]

\* The first sample failed to load and a row in the middle failed to save;
\* the rows before and after it were saved.
C18_Witness ==
    /\ spc = "returned" /\ sexit = "saved" /\ srun = 1
    /\ ~originals[1].loads
    /\ Len(sres) >= 3 /\ RowsOf(synthetics) = <<1>> \o [i \in 1..(Len(sres) - 2) |-> i + 2]

(* =================== properties of scoring (SpecScore) ================= *)
\* the synthetics of the request that have an entry in the report
ScoredPaths == {qreport[j].synthpath : j \in 1..Len(qreport)}
\* the labels that have an original in the batch
OriginalLabels == {qdata.originals[i].label : i \in 1..Len(qdata.originals)}

\* C16: a synthetic whose label has no original in the batch has no entry in
\* the per-sample metrics, and the averages are the means over the entries
\* of the report alone (zero when there is none).
C16_UnmatchedNotScored ==
    /\ qpc \in {"scored", "formatted"} =>
          \A i \in 1..Len(qdata.synthetics) :
              qdata.synthetics[i].label \notin OriginalLabels => i \notin ScoredPaths
    /\ qpc = "formatted" =>
          LET n == Cardinality(ScoredPaths)
              cos == SumOf([j \in 1..Len(qreport) |->
                              qdata.synthetics[qreport[j].synthpath]], "cossim")
          IN  /\ Len(qreport) = n
              /\ n = 0 => qavg.cosine_similarity = 0
              /\ n > 0 => /\ 2 * n * qavg.cosine_similarity <= 2 * cos + n
                          /\ 2 * n * qavg.cosine_similarity > 2 * cos - n

\* Scenario E has been scored: a zebra without zebra originals next to a cat
\* with a cat original; the average is the score of the cat.
C16_Witness ==
    /\ qpc = "formatted"
    /\ Len(qdata.synthetics) = 2
    /\ qdata.synthetics[1].label = "zebra" /\ "zebra" \notin OriginalLabels
    /\ ScoredPaths = {2}
    /\ qavg.cosine_similarity = 8000

(* ================= properties of ParamsStore (FairParams) ============== *)
\* C19: a ParamsStore.get or ParamsStore.set does not wait for the params
\* lock forever: every thread is again and again not in FileLock.acquire.
C19_ParamsBoundedLockWait ==
    \A w \in Workers : []<>(ppc[w] \notin {"acquire", "sleep"})

(* ================== properties of ingest_zip (SpecIngest) ============== *)
\* C20: once ingest_zip has returned or raised, no file that
\* validate_and_save_temp created is left in the tmp directory.
C20_NoTempFileLeft ==
    zpc = "done" => ztmp = {}

\* C24: a corrupt or invalid image among the members is skipped: when the
\* call fails with status 400 it has registered nothing, and it has been
\* through every member that holds a valid image.
C24_CorruptMemberSkipped ==
    (zpc = "done" /\ zout = "HTTPException 400") =>
        /\ zcreated = <<>>
        /\ \A j \in 1..Len(zmembers) : zmembers[j].valid => zi >= j

(* ================ properties of vec and mat (SpecCodec) ================ *)
\* C21: for every RGB image of the canonical size, mat(vec(x), shape) is an
\* image of the same size whose every pixel value is the pixel value of x
\* (the round trip is exact, so it is within any rounding tolerance).
C21_RoundTrip ==
    cpc = "done" =>
        /\ Len(cout) = Len(cimg)
        /\ \A r \in 1..Len(cimg) :
              /\ Len(cout[r]) = Len(cimg[r])
              /\ \A c \in 1..Len(cimg[r]) : \A ch \in 1..Channels :
                    cout[r][c][ch] = cimg[r][c][ch]

\* An image with pixels that differ, along a row and along a column, has
\* been encoded and decoded.
C21_Witness ==
    /\ cpc = "done"
    /\ cimg[1][1] # cimg[1][2] /\ cimg[1][1] # cimg[2][1]
    /\ cvec = Vec(cimg)
    /\ cout = cimg

(* =================== properties of mat (SpecDecode) ==================== *)
\* C22: mat clamps: a component above 255 becomes the pixel value 255 and a
\* component below 0 becomes the pixel value 0, for every vector.
C22_DecodeClamps ==
    cpc = "done" =>
        \A k \in 1..Len(cvec) :
            /\ cvec[k] > FloatOf(255) => cout[1][1][k] = 255
            /\ cvec[k] < FloatOf(0)   => cout[1][1][k] = 0

(* ============ properties of the best original (SpecMatch) ============== *)
\* the originals the synthetic could be compared with
Comparable == {i \in 1..Len(mcands) : mcands[i].comparable}
\* the greatest cosine similarity among them
MaxCos == MaxOf({mcands[i].cos : i \in Comparable})

\* C23: for a synthetic that is scored against some original, the cosine
\* similarity reported is the greatest over the loaded originals of its
\* label, and the original taken for the structural similarity is the first,
\* in the order met, that attains it.
C23_FirstBestOriginal ==
    (mpc = "done" /\ Comparable # {}) =>
        /\ Len(mout) = 1
        /\ mout[1].cossim = MaxCos
        /\ mout[1].best \in Comparable
        /\ mcands[mout[1].best].cos = MaxCos
        /\ \A i \in Comparable : mcands[i].cos = MaxCos => mout[1].best <= i
        /\ mcands[mout[1].best].ssimok => mout[1].ssim = SsimWith(mout[1].best)

\* Three originals, the second and the third tied at the greatest score: the
\* second is the one used.
C23_Witness ==
    /\ mpc = "done"
    /\ Len(mcands) = 3
    /\ Comparable = {1, 2, 3}
    /\ mcands[1].cos < mcands[2].cos /\ mcands[2].cos = mcands[3].cos
    /\ mout[1].best = 2
    /\ mout[1].ssim = SsimWith(2)

\* C30: every metric emitted comes from a comparison: its cosine similarity
\* is the score of an original the synthetic was compared with and its
\* structural similarity was computed against that original; when every
\* comparison failed no metric is emitted.
C30_NoSentinelMetric ==
    mpc = "done" =>
        /\ Comparable = {} => mout = <<>>
        /\ \A j \in 1..Len(mout) :
              \E i \in Comparable : /\ mout[j].cossim = mcands[i].cos
                                    /\ mcands[i].ssimok
                                    /\ mout[j].ssim = SsimWith(i)

(* ============ properties of construction (SpecBoot) ==================== *)
\* C25: constructing an AssetRegistry never replaces an index that exists:
\* once no process is in ensure_index any more, every entry that an add_file
\* of another process has added is in the index.
C25_ConstructionKeepsIndex ==
    (\A w \in Workers : pc[w] # "ensure" /\ op[w].kind # "init") =>
        AddedIds \subseteq IdsOf(ReadIndex(index))

(* ============ properties of concurrent deletes (Spec) ================== *)
\* The step ends the delete_asset call of worker w, for an id that add_file
\* has returned.
DeleteEnds(w) ==
    /\ op[w].kind = "delete" /\ op[w].id \in AddedIds
    /\ pc[w] # "idle" /\ pc'[w] = "idle" /\ ~CrashStep

\* Another worker is in a delete_asset call for the id of w's call.
DeleteOverlaps(w) ==
    \E v \in Workers \ {w} : op[v].kind = "delete" /\ op[v].id = op[w].id

\* C26 as stated: of two delete_asset calls for the same existing id that run
\* concurrently, the one that ends while the other is under way returns True
\* or False, and True only when no call has removed the id before; after True
\* the index lacks the id and its other entries are as they were.
C26_OneTrueOneFalse ==
    [][\A w \in Workers :
         (DeleteEnds(w) /\ DeleteOverlaps(w)) =>
            /\ last'.tag \in {"True", "False"}
            /\ last'.tag = "True" =>
                  /\ op[w].id \notin deleted
                  /\ index'.assets = Pop(ReadIndex(index), op[w].id)
            /\ last'.tag = "False" => op[w].id \in deleted /\ index' = index]_vars

\* C26, amended: a delete_asset call for an existing id returns True, returns
\* False, or raises the lock timeout or the failure of the index write.  At
\* most one call returns True for an id: it returns True only when no call
\* has removed the id before, and then the index lacks the id and its other
\* entries are as they were; it returns False only when another call has
\* removed the id, and leaves the index as it is; a call that raises leaves
\* the index as it is.
C26_AtMostOneTrue ==
    [][\A w \in Workers :
         DeleteEnds(w) =>
            /\ last'.call = op[w]
            /\ last'.tag \in {"True", "False", "Timeout", "OSError"}
            /\ last'.tag = "True" =>
                  /\ op[w].id \notin deleted /\ op[w].id \in deleted'
                  /\ index'.assets = Pop(ReadIndex(index), op[w].id)
            /\ last'.tag = "False" => op[w].id \in deleted /\ index' = index
            /\ last'.tag \in {"Timeout", "OSError"} => index' = index]_vars

\* Two delete_asset calls for the same existing id are under way: one has
\* unlinked the file and is about to replace the index, the other waits for
\* the lock.
C26_Witness ==
    \E w, v \in Workers :
        /\ w # v
        /\ op[w].kind = "delete" /\ op[v].kind = "delete" /\ op[w].id = op[v].id
        /\ op[w].id \in AddedIds
        /\ pc[v] = "aw_replace" /\ op[v].unlink = "done" /\ op[v].id \notin files
        /\ pc[w] = "acquire"

(* ========= properties of delete_asset's file removal (SpecDeletePath) == *)
\* C27: when the relpath of the record is adversarial (it has ".." segments
\* or is absolute), delete_asset unlinks no file and removes no directory
\* outside the data root.
C27_DeleteInsideRoot ==
    (dprel.abs \/ \E i \in 1..Len(dprel.parts) : dprel.parts[i] = "..") =>
        \A p \in dpgone : IsRelativeTo(p, DataRoot)

(* ============ properties of a failed add_file (Spec) =================== *)
\* C28: an add_file that fails after it has moved the source file (the lock
\* timeout, or a failure of the index write) leaves no file and no directory
\* behind for the id it drew, so that with no call in progress every stored
\* file has its entry in the index.
C28_FailedAddLeavesNothing ==
    [][\A w \in Workers :
         (/\ op[w].kind = "add" /\ op[w].src = "moved"
          /\ pc[w] # "idle" /\ pc'[w] = "idle" /\ ~CrashStep
          /\ last'.tag \in {"Timeout", "OSError"}) =>
              /\ op[w].id \notin files' /\ op[w].id \notin dirs'
              /\ ((\A v \in Workers : pc'[v] = "idle") =>
                     \A id \in files' : HasId(ReadIndex(index'), id) \/ id \in deleted')]_vars

(* ================ properties of load_params (SpecLoad) ================= *)
\* C29: load_params, which takes no lock, reads a whole params document
\* whatever ParamsStore.set is doing: the file holds at every moment nothing
\* or a whole document that a set was given, the read returns the document
\* the file holds at that moment (the previous one until os.replace, the new
\* one after it), and the defaults are returned only when there was no file.
C29_LoadSeesWholeDocument ==
    /\ [](pdoc \in ParamDocs \cup {NoParamsFile})
    /\ [][(lpc = "read" /\ lpc' = "done") => (lout' = pdoc /\ lout' \in ParamDocs)]_vars
    /\ [](lpc = "done" => \/ lsaw = "absent" /\ lout = DefaultParams
                          \/ lsaw = "present" /\ lout \in ParamDocs)

\* load_params has returned the previous document while a set holding a
\* different one is between its temporary file and os.replace.
C29_Witness ==
    /\ lpc = "done" /\ lsaw = "present"
    /\ lout = pdoc
    /\ \E w \in Workers : ppc[w] = "written" /\ ptmp[w] \in ParamDocs \ {lout}

====
